---- MODULE Spec2Model ----
(***************************************************************************)
(* A model of the chunk streaming core of neuroglancer (janelia-flyem      *)
(* fork): the credentialed fetch of the DVID data source, the chunk        *)
(* manager's queue / cache, and the multiscale level geometry computed by  *)
(* getSources.                                                             *)
(***************************************************************************)
EXTENDS Integers, Sequences, FiniteSets, TLC

(***************************************************************************)
(* Bounds of the model.                                                    *)
(***************************************************************************)
NumRequests == 2
MaxEpoch == 2
MaxLevel == 4
MaxTileLevel == 2
NumCallers == 3
MaxInstances == 2
MaxScales == 2
MaxFragments == 2
MaxChunkRetries == 2
MaxDownloads == 2
MaxMessages == 3
NumGpuChunks == 2
MaxCopies == 3

VARIABLES
    request,        \* per credentialed request: the state of its fetchWithCredentials call
    credentials,    \* the shared credentials provider: cached generation and its validity
    refreshIssued,  \* per generation: refresh calls issued to replace that generation
    refreshResult   \* per generation: how the refresh replacing it ended

VARIABLES
    chunks,         \* the chunk manager's entries: queued, fetching, resident or failed chunks
    epoch,          \* the current viewport generation
    reprioritized,  \* the keys the requestChunks call just made found resident or in flight
    dispatched,     \* the entry whose fetch has just been started
    evicted,        \* the entries removed by the eviction pass that has just completed
    passDone        \* an eviction pass has just completed

VARIABLES
    instance,       \* the data instance info parsed last (VolumeDataInstanceInfo or TileDataInstanceInfo)
    sources         \* what getSources returned for it (<<>>: not called yet)

VARIABLES
    cachedServerInfo,   \* the module's map from cache key to the promise of a ServerInfo
    promises,           \* the promises getServerInfo created, in order of creation
    httpLog,            \* the '/api/repos/info' requests sent, in order
    received            \* per caller: what its getServerInfo call returned

VARIABLES
    metadata,       \* the JSON object of the metadata response parsed last
    parsed          \* what its parse produced: the info object, or the error thrown

VARIABLES
    manifest,       \* the manifest chunk of the mesh object requested: its state and fragment ids
    fragment,       \* per fragment id: the state of its fragment chunk
    meshLog         \* the paths the mesh source has requested, in order

VARIABLES
    download,       \* one chunk of a chunk source: its state, its HTTP request and its promise
    downloadEpoch   \* the viewport generation that chunk is looked at in

VARIABLES
    rasterLog       \* the requests the raster volume source has sent, in order

VARIABLES
    sourceUrl,          \* the source URL that was resolved
    sourceParameters,   \* the ClioSourceParameters parseSourceUrl returned for it
    urlResolved         \* whether a source URL has been resolved

VARIABLES
    layer,           \* the segmentation layer: visible, visibleSegments, segmentEquivalences
    updatePending,   \* whether an update of the chunk priorities is scheduled
    priorityInputs,  \* the state of the layer the chunk priorities were computed from
    handled,         \* the number of visibility messages handled
    visibleReceived, \* the value of the last visibility message
    scheduleCalls,   \* the number of calls of scheduleUpdateChunkPriorities
    fetchLog         \* the fetches dispatched, each with the priorities' inputs and the layer's state

VARIABLES
    serverObj,      \* the response of /api/repos/info a ServerInfo was constructed from
    repositories,   \* ServerInfo.repositories, the map parseRepositoriesInfo returned
    nodeLookup      \* the last call of getNode: its argument and its outcome

VARIABLES
    dataInfo,       \* the AnnotationDataInfo of the dataset
    geometrySpecs   \* the result of makeAnnotationGeometrySourceSpecifications

VARIABLES
    glContext,      \* the WebGL context: its textures, active unit and bound textures
    gpuChunk        \* per volume chunk: its GPU residency, texture and textureLayout

VARIABLES
    relationship,     \* one relationship: segmentationState, showMatches, the listener's wasEmpty
    visibleSegments,  \* per segmentation layer: its set of visible segments
    changedCount,     \* the number of dispatches of the relationship map's changed signal
    setChanges,       \* the number of changes of a set of visible segments
    emptyAtDispatch   \* whether the attached set was empty at its last dispatch or at attachment

fetchVars == <<request, credentials, refreshIssued, refreshResult>>

chunkVars == <<chunks, epoch, reprioritized, dispatched, evicted, passDone>>

sourceVars == <<instance, sources>>

serverInfoVars == <<cachedServerInfo, promises, httpLog, received>>

metadataVars == <<metadata, parsed>>

meshVars == <<manifest, fragment, meshLog>>

downloadVars == <<download, downloadEpoch>>

rasterVars == <<rasterLog>>

sourceUrlVars == <<sourceUrl, sourceParameters, urlResolved>>

layerVars == <<layer, updatePending, priorityInputs, handled, visibleReceived, scheduleCalls, fetchLog>>

repositoryVars == <<serverObj, repositories, nodeLookup>>

annotationVars == <<dataInfo, geometrySpecs>>

gpuVars == <<glContext, gpuChunk>>

relationshipVars == <<relationship, visibleSegments, changedCount, setChanges, emptyAtDispatch>>

vars == <<request, credentials, refreshIssued, refreshResult,
          chunks, epoch, reprioritized, dispatched, evicted, passDone,
          instance, sources,
          cachedServerInfo, promises, httpLog, received,
          metadata, parsed,
          manifest, fragment, meshLog,
          download, downloadEpoch,
          rasterLog,
          sourceUrl, sourceParameters, urlResolved,
          layer, updatePending, priorityInputs, handled, visibleReceived, scheduleCalls, fetchLog,
          serverObj, repositories, nodeLookup,
          dataInfo, geometrySpecs,
          glContext, gpuChunk,
          relationship, visibleSegments, changedCount, setChanges, emptyAtDispatch>>

(***************************************************************************)
(* Remote fetch layer: dvid/api.ts, fetchWithDVIDCredentials.              *)
(***************************************************************************)
Requests == 1 .. NumRequests

\* Each request obtains at most one refreshed token, so generations stay in this range.
Generations == 1 .. (NumRequests + 2)

\* The statuses a server answers with: success, the two authorization failures,
\* the gateway timeout, and one representative of every other error.
HttpStatuses == {200, 401, 403, 500, 504}

\* The number of times one request is sent again after a gateway timeout.
MaxTransientRetries == 2

\* The error handler that throws on every error but an authorization failure.
errorHandler_timeoutThrows(status) ==
    IF status = 403 \/ status = 401 THEN "refresh" ELSE "throw"

\* The error handler with the gateway timeout treated as an authorization failure.
errorHandler_timeoutRefreshes(status) ==
    IF status = 403 \/ status = 401 \/ status = 504 THEN "refresh" ELSE "throw"

\* The error handler that asks for a plain retry on 403.
errorHandler_forbiddenRetries(status) ==
    IF status = 401
      THEN "refresh"
      ELSE IF status = 504 \/ status = 403 THEN "retry" ELSE "throw"

\* The error handler that asks for a plain retry on 401.
errorHandler_unauthorizedRetries(status) ==
    IF status = 403
      THEN "refresh"
      ELSE IF status = 504 \/ status = 401 THEN "retry" ELSE "throw"

\* api.ts:123-134, the errorHandler passed to fetchWithCredentials.
errorHandler(status) ==
    IF status = 403 \/ status = 401
      THEN "refresh"
      ELSE IF status = 504 THEN "retry" ELSE "throw"

\* The URLs of the requests, as sequences of characters.  A DVID base URL
\* matches urlPattern (frontend.ts), so its scheme is http or https.
HttpUrl == <<"h", "t", "t", "p", ":", "/", "/", "a", "/", "x">>

HttpsUrl == <<"h", "t", "t", "p", "s", ":", "/", "/", "a", "/", "x">>

\* input.startsWith(prefix).
startsWith(input, prefix) ==
    Len(input) >= Len(prefix) /\ SubSeq(input, 1, Len(prefix)) = prefix

\* headers.set(name, value): the header of that name is replaced.
HeadersSet(headers, name, value) ==
    {h \in headers : h[1] # name} \cup {<<name, value>>}

\* The callback that attaches the token whatever the URL.
applyCredentials_anyUrl(creds, input, initHeaders) ==
    HeadersSet(HeadersSet(initHeaders, "Authorization", <<"Bearer", creds>>),
               "Access-Control-Allow-Origin", "*")

\* api.ts:115-122, the applyCredentials callback passed to fetchWithCredentials:
\* the headers of the request that carries the credentials creds.
applyCredentials(creds, input, initHeaders) ==
    IF startsWith(input, <<"h", "t", "t", "p", "s">>)
      THEN HeadersSet(HeadersSet(initHeaders, "Authorization", <<"Bearer", creds>>),
                      "Access-Control-Allow-Origin", "*")
      ELSE initHeaders

\* makeRequestWithCredentials passes an init without headers.
InitRequest ==
    [pc |-> "idle", token |-> 0, firstToken |-> 0, attempts |-> 0, responses |-> 0,
     retries |-> 0, authFailures |-> 0, refreshRequests |-> 0, status |-> 0,
     all504 |-> TRUE, prevToken |-> 0, authFailToken |-> 0, resumeToken |-> 0,
     awaited |-> 0, input |-> <<>>, headers |-> {}]

\* The URL of request r: the odd requests go to the https server, the even
\* ones to the http server.
RequestInput(r) == IF r % 2 = 1 THEN HttpsUrl ELSE HttpUrl

\* cancellableFetchOk(input, applyCredentials(credentials, init), ...): one attempt
\* of request record q goes out carrying the token of generation tok.
Send(q, tok) ==
    [q EXCEPT !.pc = "sent", !.token = tok, !.attempts = @ + 1,
              !.headers = applyCredentials(tok, q.input, {}),
              !.firstToken = IF @ = 0 THEN tok ELSE @,
              !.resumeToken = IF q.authFailToken # 0 /\ @ = 0 THEN tok ELSE @]

Fail(q) == [q EXCEPT !.pc = "failed"]

\* credentialsProvider.get(invalidCredentials): what the shared provider answers
\* when asked for credentials other than generation invalid (0: any credentials).
\*   "cached"   the cached token is newer than the invalid one and is reused
\*   "start"    the cached token is the invalid one: a refresh is started
\*   "join"     a refresh is pending: the caller waits for its result
\*   "rejected" the last refresh failed: no credentials can be obtained
ProviderGet(invalid) ==
    CASE credentials.state = "invalid" -> "rejected"
      [] credentials.state = "needs-refresh" -> "join"
      [] credentials.state = "valid" /\ credentials.generation = invalid -> "start"
      [] OTHER -> "cached"

\* Request r, in state q, awaits credentialsProvider.get(invalid) and then sends.
AcquireCredentials(r, q, invalid) ==
    LET answer == ProviderGet(invalid)
        g == credentials.generation
    IN  CASE answer = "cached" ->
               /\ request' = [request EXCEPT ![r] = Send(q, g)]
               /\ UNCHANGED <<credentials, refreshIssued, refreshResult>>
          [] answer = "start" ->
               /\ credentials' = [credentials EXCEPT !.state = "needs-refresh"]
               /\ refreshIssued' = [refreshIssued EXCEPT ![g] = @ + 1]
               /\ refreshResult' = [refreshResult EXCEPT ![g] = "pending"]
               /\ request' = [request EXCEPT ![r] = [q EXCEPT !.pc = "wait", !.awaited = g]]
          [] answer = "join" ->
               /\ request' = [request EXCEPT ![r] = [q EXCEPT !.pc = "wait", !.awaited = g]]
               /\ UNCHANGED <<credentials, refreshIssued, refreshResult>>
          [] OTHER ->
               /\ request' = [request EXCEPT ![r] = Fail(q)]
               /\ UNCHANGED <<credentials, refreshIssued, refreshResult>>

\* fetchWithDVIDCredentials is called for request r.
StartRequest(r) ==
    /\ request[r].pc = "idle"
    /\ AcquireCredentials(r, request[r], 0)
    /\ UNCHANGED <<chunkVars, sourceVars, serverInfoVars, metadataVars, meshVars, downloadVars, rasterVars, sourceUrlVars, layerVars, repositoryVars, annotationVars, gpuVars, relationshipVars>>

\* The retry state machine of fetchWithCredentials, driven by errorHandler: the
\* attempt of request r in flight is answered with status.
Respond(r, status) ==
    /\ request[r].pc = "sent"
    /\ UNCHANGED <<chunkVars, sourceVars, serverInfoVars, metadataVars, meshVars, downloadVars, rasterVars, sourceUrlVars, layerVars, repositoryVars, annotationVars, gpuVars, relationshipVars>>
    /\ LET auth == status \in {401, 403}
           q == [request[r] EXCEPT
                    !.status = status, !.responses = @ + 1,
                    !.prevToken = request[r].token,
                    !.all504 = @ /\ status = 504,
                    !.authFailures = IF auth THEN @ + 1 ELSE @,
                    !.authFailToken = IF auth /\ @ = 0 THEN request[r].token ELSE @]
           verdict == errorHandler(status)
       IN  IF status = 200
             THEN /\ request' = [request EXCEPT ![r] = [q EXCEPT !.pc = "done"]]
                  /\ UNCHANGED <<credentials, refreshIssued, refreshResult>>
             ELSE CASE verdict = "refresh" ->
                         IF q.refreshRequests >= 1
                           THEN /\ request' = [request EXCEPT ![r] = Fail(q)]
                                /\ UNCHANGED <<credentials, refreshIssued, refreshResult>>
                           ELSE AcquireCredentials(
                                    r, [q EXCEPT !.refreshRequests = @ + 1], q.token)
                    [] verdict = "retry" ->
                         /\ request' = [request EXCEPT ![r] =
                                IF q.retries < MaxTransientRetries
                                  THEN Send([q EXCEPT !.retries = @ + 1], q.token)
                                  ELSE Fail(q)]
                         /\ UNCHANGED <<credentials, refreshIssued, refreshResult>>
                    [] OTHER ->
                         /\ request' = [request EXCEPT ![r] = Fail(q)]
                         /\ UNCHANGED <<credentials, refreshIssued, refreshResult>>

\* The pending refresh resolves with a new token: every waiter continues with it.
RefreshSucceed ==
    /\ credentials.state = "needs-refresh"
    /\ LET g == credentials.generation
       IN  /\ credentials' = [generation |-> g + 1, state |-> "valid"]
           /\ refreshResult' = [refreshResult EXCEPT ![g] = "ok"]
           /\ request' = [r \in Requests |->
                            IF request[r].pc = "wait" THEN Send(request[r], g + 1)
                                                      ELSE request[r]]
    /\ UNCHANGED <<refreshIssued, chunkVars, sourceVars, serverInfoVars, metadataVars, meshVars, downloadVars, rasterVars, sourceUrlVars, layerVars, repositoryVars, annotationVars, gpuVars, relationshipVars>>

\* The pending refresh is rejected: every waiter fails with it.
RefreshFail ==
    /\ credentials.state = "needs-refresh"
    /\ credentials' = [credentials EXCEPT !.state = "invalid"]
    /\ refreshResult' = [refreshResult EXCEPT ![credentials.generation] = "failed"]
    /\ request' = [r \in Requests |->
                     IF request[r].pc = "wait" THEN Fail(request[r]) ELSE request[r]]
    /\ UNCHANGED <<refreshIssued, chunkVars, sourceVars, serverInfoVars, metadataVars, meshVars, downloadVars, rasterVars, sourceUrlVars, layerVars, repositoryVars, annotationVars, gpuVars, relationshipVars>>

InitFetch ==
    /\ request = [r \in Requests |-> [InitRequest EXCEPT !.input = RequestInput(r)]]
    /\ credentials = [generation |-> 1, state |-> "valid"]
    /\ refreshIssued = [g \in Generations |-> 0]
    /\ refreshResult = [g \in Generations |-> "none"]

NextFetch ==
    \/ \E r \in Requests : StartRequest(r)
    \/ \E r \in Requests, status \in HttpStatuses : Respond(r, status)
    \/ RefreshSucceed
    \/ RefreshFail

(***************************************************************************)
(* Chunk manager / cache (chunk_manager/backend): the queue of pending      *)
(* fetches, the fetches in flight and the resident chunks.                  *)
(***************************************************************************)
\* A chunk key is <<source, grid position>>: source 1 has two chunks.
ChunkKeys == {<<1, 1>>, <<1, 2>>, <<2, 1>>, <<3, 1>>}

Priorities == {1, 2}

\* The visible sets a viewport produces: it shows at most two chunks at a time.
VisibleSets == {v \in SUBSET ChunkKeys : \E a, b \in ChunkKeys : v \subseteq {a, b}}

\* The concurrency bounds: fetches in flight per chunk source, and over all sources.
PerSourceCap == 1
GlobalCap == 2

\* The configured budget of resident bytes, and the byte size estimate of a chunk.
Budget == 3
ChunkSize(k) == IF k[2] = 1 THEN k[1] ELSE 2

Live(e) == e.state \in {"queued", "fetching", "resident"}

Pending == {e \in chunks : e.state = "queued"}
InFlight == {e \in chunks : e.state = "fetching"}
Resident == {e \in chunks : e.state = "resident"}

\* The lookup that finds only queued entries of a key.
HasLive_queuedOnly(k) == \E e \in chunks : e.key = k /\ e.state = "queued"

\* Whether key k already has a resident or in-flight (queued or fetching) entry.
HasLive(k) == \E e \in chunks : e.key = k /\ Live(e)

\* requestChunks(visibleSet, priorities): the viewport has changed; the chunks
\* of the visible set get a priority entry of the new epoch.  Chunks already
\* resident or in flight are re-prioritized, new keys are enqueued (a chunk that
\* failed in an earlier epoch is enqueued again).
requestChunks(visibleSet, priorities) ==
    LET e2 == epoch + 1
        touch(e) == [e EXCEPT !.priority = priorities[e.key], !.epoch = e2]
        kept == {IF e.key \in visibleSet THEN touch(e) ELSE e :
                    e \in {x \in chunks : Live(x) \/ x.key \notin visibleSet}}
        fresh == {[key |-> k, state |-> "queued", priority |-> priorities[k],
                   epoch |-> e2] :
                    k \in {x \in visibleSet : ~HasLive(x)}}
    IN  /\ epoch < MaxEpoch
        /\ epoch' = e2
        /\ chunks' = kept \cup fresh
        /\ reprioritized' = {k \in visibleSet : HasLive(k)}
        /\ dispatched' = {}
        /\ evicted' = {}
        /\ passDone' = FALSE
        /\ UNCHANGED <<fetchVars, sourceVars, serverInfoVars, metadataVars, meshVars, downloadVars, rasterVars, sourceUrlVars, layerVars, repositoryVars, annotationVars, gpuVars, relationshipVars>>

\* a is dispatched before b: higher priority first, ties broken in favour of the
\* most recently requested chunk.
Precedes(a, b) ==
    \/ a.priority > b.priority
    \/ a.priority = b.priority /\ a.epoch > b.epoch

\* The queue served first come, first served.
QueueHead_oldestFirst == {e \in Pending : \A f \in Pending : f.epoch >= e.epoch}

\* The pending entries that no other pending entry precedes.
QueueHead == {e \in Pending : \A f \in Pending : ~Precedes(f, e)}

\* The capacity test that looks at the global cap alone.
HasCapacity_globalOnly(e) == Cardinality(InFlight) < GlobalCap

\* The capacity test that looks at the per-source cap alone.
HasCapacity_sourceOnly(e) ==
    Cardinality({f \in InFlight : f.key[1] = e.key[1]}) < PerSourceCap

\* Whether the fetch of e may start without exceeding a cap.
HasCapacity(e) ==
    /\ Cardinality({f \in InFlight : f.key[1] = e.key[1]}) < PerSourceCap
    /\ Cardinality(InFlight) < GlobalCap

\* The head of the queue is dispatched: its fetch starts.
Dispatch(e) ==
    /\ e \in QueueHead
    /\ HasCapacity(e)
    /\ chunks' = (chunks \ {e}) \cup {[e EXCEPT !.state = "fetching"]}
    /\ dispatched' = {[e EXCEPT !.state = "fetching"]}
    /\ reprioritized' = {}
    /\ evicted' = {}
    /\ passDone' = FALSE
    /\ UNCHANGED <<epoch, fetchVars, sourceVars, serverInfoVars, metadataVars, meshVars, downloadVars, rasterVars, sourceUrlVars, layerVars, repositoryVars, annotationVars, gpuVars, relationshipVars>>

\* The download of e settles: the chunk becomes resident, fails permanently, or
\* fails with a retryable condition and is enqueued again.
FetchComplete(e, outcome) ==
    /\ e \in InFlight
    /\ chunks' = (chunks \ {e}) \cup
          {[e EXCEPT !.state = CASE outcome = "ok" -> "resident"
                                 [] outcome = "permanent" -> "failed"
                                 [] OTHER -> "queued"]}
    /\ reprioritized' = {}
    /\ dispatched' = {}
    /\ evicted' = {}
    /\ passDone' = FALSE
    /\ UNCHANGED <<epoch, fetchVars, sourceVars, serverInfoVars, metadataVars, meshVars, downloadVars, rasterVars, sourceUrlVars, layerVars, repositoryVars, annotationVars, gpuVars, relationshipVars>>

\* cancelOutOfView(currentEpoch): a fetch, pending or started, whose key is absent
\* from the latest request is cancelled and leaves the bookkeeping.
cancelOutOfView(e) ==
    /\ e \in Pending \cup InFlight
    /\ e.epoch # epoch
    /\ chunks' = chunks \ {e}
    /\ reprioritized' = {}
    /\ dispatched' = {}
    /\ evicted' = {}
    /\ passDone' = FALSE
    /\ UNCHANGED <<epoch, fetchVars, sourceVars, serverInfoVars, metadataVars, meshVars, downloadVars, rasterVars, sourceUrlVars, layerVars, repositoryVars, annotationVars, gpuVars, relationshipVars>>

RECURSIVE TotalSize(_)
TotalSize(R) ==
    IF R = {} THEN 0
    ELSE LET e == CHOOSE x \in R : TRUE
         IN  ChunkSize(e.key) + TotalSize(R \ {e})

KeyBefore(a, b) == a[1] < b[1] \/ (a[1] = b[1] /\ a[2] < b[2])

\* A chunk without a priority entry of the current epoch.
Stale(e) == e.epoch # epoch

\* A chunk the current epoch needs: in the visible set of the latest request.
Needed(e) == e.epoch = epoch

\* The first entry of R in key order.
FirstByKey(R) == CHOOSE e \in R : \A f \in R : f = e \/ KeyBefore(e.key, f.key)

\* The entry of R with the lowest priority, the first in key order among equals.
LowestPriority(R) ==
    FirstByKey({e \in R : \A f \in R : f.priority >= e.priority})

\* The victim chosen by the priority value alone, whatever epoch it is from.
NextVictim_ignoresEpoch(R) ==
    IF R = {} THEN {} ELSE {LowestPriority(R)}

\* The next chunk to evict from the resident set R (none: {}).  A chunk without
\* a priority of the current epoch has the lowest current priority, whatever
\* value its old entry holds; a chunk the current epoch needs is retained.
NextVictim(R) ==
    LET stale == {e \in R : Stale(e)}
    IN  IF stale # {} THEN {FirstByKey(stale)} ELSE {}

\* The pass that stops after the first eviction.
Retained_singleEviction(R) ==
    IF TotalSize(R) <= Budget THEN R ELSE R \ NextVictim(R)

\* The resident entries an eviction pass over R retains.
RECURSIVE Retained(_)
Retained(R) ==
    IF TotalSize(R) <= Budget \/ NextVictim(R) = {}
      THEN R
      ELSE Retained(R \ NextVictim(R))

\* One eviction pass, run when the resident chunks exceed the budget.
EvictionPass ==
    /\ TotalSize(Resident) > Budget
    /\ chunks' = chunks \ (Resident \ Retained(Resident))
    /\ evicted' = Resident \ Retained(Resident)
    /\ passDone' = TRUE
    /\ reprioritized' = {}
    /\ dispatched' = {}
    /\ UNCHANGED <<epoch, fetchVars, sourceVars, serverInfoVars, metadataVars, meshVars, downloadVars, rasterVars, sourceUrlVars, layerVars, repositoryVars, annotationVars, gpuVars, relationshipVars>>

InitChunks ==
    /\ chunks = {}
    /\ epoch = 0
    /\ reprioritized = {}
    /\ dispatched = {}
    /\ evicted = {}
    /\ passDone = FALSE

NextChunks ==
    \/ \E visibleSet \in VisibleSets :
          \E priorities \in [visibleSet -> Priorities] :
             requestChunks(visibleSet, priorities)
    \/ \E e \in chunks : Dispatch(e)
    \/ \E e \in chunks, outcome \in {"ok", "permanent", "retryable"} :
          FetchComplete(e, outcome)
    \/ \E e \in chunks : cancelOutOfView(e)
    \/ EvictionPass

(***************************************************************************)
(* Multiscale source: dvid/frontend.ts, VolumeDataInstanceInfo and          *)
(* TileDataInstanceInfo.                                                    *)
(*                                                                          *)
(* Voxel sizes are positive integers here and a quotient of two of them is  *)
(* kept as an exact fraction.  The resolutions the model draws are the base *)
(* resolution times a power of two; for these the code's floating point     *)
(* quotient voxelSize / (voxelSize * 2^k) and its product with an integer   *)
(* bound are exact, so the fraction is what the code computes.              *)
(***************************************************************************)
Axes == 1 .. 3

RECURSIVE Pow2(_)
Pow2(n) == IF n = 0 THEN 1 ELSE 2 * Pow2(n - 1)

\* a / b in floating point, for positive b.
Quotient(a, b) == [num |-> a, den |-> b]

\* x * q.
Times(x, q) == [num |-> x * q.num, den |-> q.den]

\* Rounding toward zero, as (x | 0) or Math.trunc would.
MathFloor_truncates(q) ==
    IF q.num >= 0 THEN q.num \div q.den ELSE -((-q.num) \div q.den)

\* Math.floor.
MathFloor(q) == q.num \div q.den

\* Math.ceil.
MathCeil(q) == -((-q.num) \div q.den)

\* vec3.multiply.
VecMultiply(a, b) == [i \in Axes |-> a[i] * b[i]]

\* The values the metadata of the model's servers hold.
LowerBounds == [Axes -> {-7, 0, 3}]
UpperBounds == [Axes -> {5, 100}]
VoxelSizes == {<<10, 10, 10>>, <<8, 8, 4>>}
TileSizes == {<<3, 3, 3>>, <<4, 4, 2>>}
MinTileCoords == {<<0, 0, 0>>, <<-2, 1, -1>>}
MaxTileCoords == {<<25, 25, 25>>, <<3, 2, 1>>}

NoInstance == [kind |-> "none"]

\* The loop of the VolumeDataInstanceInfo constructor that counts the keys
\* name_1, name_2, ... of the repository; keys holds the indexes j for which
\* name_j is a data instance key.
\* The count of all the keys name_j, whether or not the ones before them exist.
CountLevels_countsAll(keys, numLevels) == numLevels + Cardinality(keys)

RECURSIVE CountLevels(_, _)
CountLevels(keys, numLevels) ==
    IF numLevels \in keys THEN CountLevels(keys, numLevels + 1) ELSE numLevels

\* new VolumeDataInstanceInfo(obj, name, base, volumeType, keys).  The model
\* follows one data instance, whose info is parsed once; the info keeps the
\* indexes of the keys it was constructed with.
ConstructVolume(lower, upper, voxelSize, keys) ==
    /\ instance = NoInstance
    /\ instance' = [kind |-> "volume",
                    lowerVoxelBound |-> lower, upperVoxelBound |-> upper,
                    voxelSize |-> voxelSize, numLevels |-> CountLevels(keys, 1),
                    keys |-> keys]
    /\ sources' = <<>>
    /\ UNCHANGED <<fetchVars, chunkVars, serverInfoVars, metadataVars, meshVars, downloadVars, rasterVars, sourceUrlVars, layerVars, repositoryVars, annotationVars, gpuVars, relationshipVars>>

\* The position of the level with key '0' in the list of levels (0: absent).
BaseLevel(levels) ==
    IF \E j \in DOMAIN levels : levels[j].level = 0
      THEN CHOOSE j \in DOMAIN levels : levels[j].level = 0
      ELSE 0

\* verifyObjectAsMap(x, y => new TileLevelInfo(y)): the Map of the entries of the
\* JSON object Extended.Levels, in the order in which the object's own keys are
\* enumerated.  The keys are the level numbers '0', '1', ...; JavaScript
\* enumerates such integer keys in ascending numeric order, whatever the order
\* in which the JSON text lists them.
RECURSIVE OwnKeysOrder(_)
OwnKeysOrder(entries) ==
    IF entries = {} THEN <<>>
    ELSE LET first == CHOOSE x \in entries : \A y \in entries : x.level <= y.level
         IN  <<first>> \o OwnKeysOrder(entries \ {first})

verifyObjectAsMap(listed) == OwnKeysOrder({listed[j] : j \in DOMAIN listed})

\* new TileDataInstanceInfo(obj, name, base): listed is Extended.Levels in the
\* order of the metadata; it throws when level '0' is not defined.
ConstructTile(listed, minTileCoord, maxTileCoord) ==
    LET levels == verifyObjectAsMap(listed) IN
    /\ instance = NoInstance
    /\ instance' =
          IF BaseLevel(levels) = 0
            THEN NoInstance
            ELSE LET baseLevel == levels[BaseLevel(levels)]
                 IN  [kind |-> "tile", levels |-> levels,
                      voxelSize |-> baseLevel.resolution,
                      lowerVoxelBound |-> VecMultiply(baseLevel.tileSize, minTileCoord),
                      upperVoxelBound |-> VecMultiply(baseLevel.tileSize, maxTileCoord)]
    /\ sources' = <<>>
    /\ UNCHANGED <<fetchVars, chunkVars, serverInfoVars, metadataVars, meshVars, downloadVars, rasterVars, sourceUrlVars, layerVars, repositoryVars, annotationVars, gpuVars, relationshipVars>>

\* frontend.ts:119-122 and 239-242: the bounds of a level whose voxel size is voxelSize.
RescaledLower(info, voxelSize) ==
    [i \in Axes |->
        MathFloor(Times(info.lowerVoxelBound[i], Quotient(info.voxelSize[i], voxelSize[i])))]

RescaledUpper(info, voxelSize) ==
    [i \in Axes |->
        MathCeil(Times(info.upperVoxelBound[i], Quotient(info.voxelSize[i], voxelSize[i])))]

\* VolumeDataInstanceInfo.getSources: one alternative per level 0 .. numLevels - 1.
VolumeSources(info) ==
    [n \in 1 .. info.numLevels |->
        LET level == n - 1
            voxelSize == [i \in Axes |-> info.voxelSize[i] * Pow2(level)]
        IN  << [level |-> level,
                voxelSize |-> voxelSize,
                chunkDataSize |-> <<64, 64, 64>>,
                lowerVoxelBound |-> RescaledLower(info, voxelSize),
                upperVoxelBound |-> RescaledUpper(info, voxelSize)] >>]

TILE_DIMS == << <<0, 1, 2>>, <<0, 2, 1>>, <<1, 2, 0>> >>

\* TileDataInstanceInfo.getSources: per level of the map, in its order, one
\* alternative per entry of TILE_DIMS.
TileSources(info) ==
    [n \in 1 .. Len(info.levels) |->
        LET levelInfo == info.levels[n]
        IN  [a \in 1 .. Len(TILE_DIMS) |->
                LET dims == TILE_DIMS[a]
                    set(i) == \E d \in 1 .. Len(dims) : dims[d] = i - 1
                    voxelSize == [i \in Axes |->
                                    IF set(i) THEN levelInfo.resolution[i]
                                              ELSE info.voxelSize[i]]
                    chunkDataSize == [i \in Axes |->
                                        IF set(i) THEN levelInfo.tileSize[i] ELSE 1]
                IN  [level |-> levelInfo.level,
                     dims |-> <<dims[1], dims[2]>>,
                     voxelSize |-> voxelSize,
                     chunkDataSize |-> chunkDataSize,
                     lowerVoxelBound |-> RescaledLower(info, voxelSize),
                     upperVoxelBound |-> RescaledUpper(info, voxelSize)]]]

\* MultiscaleVolumeChunkSource.getSources.
GetSources ==
    /\ instance.kind # "none"
    /\ sources' = IF instance.kind = "volume" THEN VolumeSources(instance)
                                              ELSE TileSources(instance)
    /\ UNCHANGED <<instance, fetchVars, chunkVars, serverInfoVars, metadataVars, meshVars, downloadVars, rasterVars, sourceUrlVars, layerVars, repositoryVars, annotationVars, gpuVars, relationshipVars>>

\* The lists of tile levels of the model's servers: up to two levels with
\* different keys, in either order, the resolution of each <<10, 10, 10>> times
\* a power of two.  The code reads each level's Resolution as it is given.
TileLevelKeys == 0 .. MaxTileLevel

TileLevelInfos ==
    {[level |-> l, resolution |-> [i \in Axes |-> v[i] * Pow2(k)], tileSize |-> t] :
        l \in TileLevelKeys, k \in 0 .. MaxTileLevel,
        v \in {<<10, 10, 10>>}, t \in TileSizes}

TileLevelLists ==
    {<<x>> : x \in TileLevelInfos}
    \cup {p \in TileLevelInfos \X TileLevelInfos : p[1].level # p[2].level}

InitSources ==
    /\ instance = NoInstance
    /\ sources = <<>>

NextSources ==
    \/ /\ instance = NoInstance
       /\ \E lower \in LowerBounds, upper \in UpperBounds, voxelSize \in VoxelSizes,
             keys \in SUBSET (1 .. MaxLevel) :
             ConstructVolume(lower, upper, voxelSize, keys)
    \/ /\ instance = NoInstance
       /\ \E levels \in TileLevelLists, lo \in MinTileCoords, hi \in MaxTileCoords :
             ConstructTile(levels, lo, hi)
    \/ GetSources

(***************************************************************************)
(* Server info cache: dvid/frontend.ts, getServerInfo.                      *)
(***************************************************************************)
Callers == 1 .. NumCallers

\* The lists of mirror base URLs the callers pass.
BaseUrlLists == {<<"http://a">>, <<"http://a", "http://b">>, <<"http://b", "http://a">>}

\* stableStringify of a list of strings: the JSON text of the array, as a
\* sequence of tokens.
RECURSIVE stableStringifyItems(_)
stableStringifyItems(list) ==
    IF Len(list) = 0 THEN <<>>
    ELSE IF Len(list) = 1 THEN <<"\"", list[1], "\"">>
    ELSE <<"\"", list[1], "\"", ",">> \o stableStringifyItems(Tail(list))

stableStringify(list) == <<"[">> \o stableStringifyItems(list) \o <<"]">>

\* A cache that hands out a promise only once it has settled.
cachedServerInfo_get_settledOnly(cacheKey) ==
    IF cacheKey \in DOMAIN cachedServerInfo
       /\ promises[cachedServerInfo[cacheKey]].state # "pending"
      THEN cachedServerInfo[cacheKey]
      ELSE 0

\* A cache that forgets a promise that was rejected.
cachedServerInfo_get_retriesRejected(cacheKey) ==
    IF cacheKey \in DOMAIN cachedServerInfo
       /\ promises[cachedServerInfo[cacheKey]].state # "rejected"
      THEN cachedServerInfo[cacheKey]
      ELSE 0

\* cachedServerInfo.get(cacheKey); 0 stands for undefined.
cachedServerInfo_get(cacheKey) ==
    IF cacheKey \in DOMAIN cachedServerInfo THEN cachedServerInfo[cacheKey] ELSE 0

\* cachedServerInfo.set(cacheKey, result).
cachedServerInfo_set(cacheKey, result) ==
    [k \in DOMAIN cachedServerInfo \cup {cacheKey} |->
        IF k = cacheKey THEN result ELSE cachedServerInfo[k]]

\* getServerInfo(baseUrls), called by caller c.  On a miss the request is sent
\* and the promise of its parsed response is stored before the call returns.
getServerInfo(c, baseUrls) ==
    /\ received[c].promise = 0
    /\ LET cacheKey == stableStringify(baseUrls)
           result == cachedServerInfo_get(cacheKey)
       IN  IF result = 0
             THEN /\ promises' = Append(promises,
                                    [baseUrls |-> baseUrls, state |-> "pending",
                                     parses |-> 0, value |-> 0])
                  /\ httpLog' = Append(httpLog, [baseUrls |-> baseUrls, path |-> "/api/repos/info"])
                  /\ cachedServerInfo' = cachedServerInfo_set(cacheKey, Len(promises) + 1)
                  /\ received' = [received EXCEPT ![c] =
                                    [baseUrls |-> baseUrls, promise |-> Len(promises) + 1,
                                     inFlight |-> FALSE]]
             ELSE /\ received' = [received EXCEPT ![c] =
                                    [baseUrls |-> baseUrls, promise |-> result,
                                     inFlight |-> promises[result].state = "pending"]]
                  /\ UNCHANGED <<cachedServerInfo, promises, httpLog>>
    /\ UNCHANGED <<fetchVars, chunkVars, sourceVars, metadataVars, meshVars, downloadVars, rasterVars, sourceUrlVars, layerVars, repositoryVars, annotationVars, gpuVars, relationshipVars>>

\* The answer to the request of promise p arrives.  A failed request rejects the
\* promise; otherwise the callback of then() runs new ServerInfo(response) once,
\* which throws on a malformed response.
ResponseArrives(p, response) ==
    /\ p \in DOMAIN promises
    /\ promises[p].state = "pending"
    /\ promises' = [promises EXCEPT ![p] =
          IF response = "error"
            THEN [@ EXCEPT !.state = "rejected"]
            ELSE IF response = "malformed"
              THEN [@ EXCEPT !.state = "rejected", !.parses = @ + 1]
              ELSE [@ EXCEPT !.state = "fulfilled", !.parses = @ + 1, !.value = p]]
    /\ UNCHANGED <<cachedServerInfo, httpLog, received>>
    /\ UNCHANGED <<fetchVars, chunkVars, sourceVars, metadataVars, meshVars, downloadVars, rasterVars, sourceUrlVars, layerVars, repositoryVars, annotationVars, gpuVars, relationshipVars>>

InitServerInfo ==
    /\ cachedServerInfo = <<>>
    /\ promises = <<>>
    /\ httpLog = <<>>
    /\ received = [c \in Callers |-> [baseUrls |-> <<>>, promise |-> 0, inFlight |-> FALSE]]

NextServerInfo ==
    \/ \E c \in Callers, baseUrls \in BaseUrlLists : getServerInfo(c, baseUrls)
    \/ \E p \in 1 .. NumCallers, response \in {"ok", "malformed", "error"} :
          ResponseArrives(p, response)

(***************************************************************************)
(* Repository metadata: dvid/frontend.ts, parseDataInstance and             *)
(* RepositoryInfo.                                                          *)
(*                                                                          *)
(* A data instance key is a pair <<name, n>>: <<name, 0>> is the key "name" *)
(* and <<name, n>> the key "name_n".  A data instance object holds the type *)
(* name of its Base property ("missing": no usable Base) and whether its    *)
(* Extended property is what the constructor of its type accepts.           *)
(***************************************************************************)
TypeNames == {"uint8blk", "grayscale8", "imagetile", "labels64", "labelblk", "keyvalue"}

InstanceKeys == {<<"grayscale", 0>>, <<"grayscale", 1>>, <<"tiles", 0>>}

InstanceObjs == [Base : TypeNames \cup {"missing"}, Extended : {"valid", "invalid"}]

\* The result of a call that throws.
Throw(message) == [ok |-> FALSE, message |-> message]

\* The levels n >= 1 for which keys holds the key name_n of the instance key.
LevelKeys(key, keys) ==
    IF key[2] # 0 THEN {}
    ELSE {n \in 1 .. MaxLevel : \E i \in DOMAIN keys : keys[i] = <<key[1], n>>}

\* new VolumeDataInstanceInfo(obj, name, base, volumeType, keys).
VolumeDataInstanceInfo(obj, name, volumeType, keys) ==
    IF obj.Extended = "invalid"
      THEN Throw(<<"Extended">>)
      ELSE [ok |-> TRUE,
            info |-> [kind |-> "volume", volumeType |-> volumeType,
                      numLevels |-> CountLevels(LevelKeys(name, keys), 1)]]

\* new TileDataInstanceInfo(obj, name, base).
TileDataInstanceInfo(obj, name) ==
    IF obj.Extended = "invalid"
      THEN Throw(<<"Extended">>)
      ELSE [ok |-> TRUE, info |-> [kind |-> "tile", volumeType |-> "IMAGE"]]

\* parseDataInstance(obj, name, keys).
parseDataInstance(obj, name, keys) ==
    IF obj.Base = "missing"
      THEN Throw(<<"Base">>)
      ELSE CASE obj.Base \in {"uint8blk", "grayscale8"} ->
                    VolumeDataInstanceInfo(obj, name, "IMAGE", keys)
             [] obj.Base = "imagetile" ->
                    TileDataInstanceInfo(obj, name)
             [] obj.Base \in {"labels64", "labelblk"} ->
                    VolumeDataInstanceInfo(obj, name, "SEGMENTATION", keys)
             [] OTHER ->
                    Throw(<<"DVID data type is not supported", obj.Base>>)

\* The loop over the instances with one try around the whole of it: the first
\* instance that fails to parse ends the loop.
RECURSIVE ParseDataInstances_abortsOnError(_, _, _)
ParseDataInstances_abortsOnError(entries, keys, acc) ==
    IF entries = <<>> THEN acc
    ELSE LET key == entries[1].key
             result == parseDataInstance(entries[1].obj, key, keys)
         IN  IF result.ok
               THEN ParseDataInstances_abortsOnError(Tail(entries), keys,
                       [acc EXCEPT !.dataInstances =
                           Append(@, [key |-> key, info |-> result.info])])
               ELSE [acc EXCEPT !.errors =
                       Append(@, <<"Failed to parse data instance", key, result.message>>)]

\* The loop of the RepositoryInfo constructor over Object.keys(dataInstanceObjs):
\* an instance that parses is set in dataInstances, the message of one that
\* throws is pushed to errors.
RECURSIVE ParseDataInstances(_, _, _)
ParseDataInstances(entries, keys, acc) ==
    IF entries = <<>> THEN acc
    ELSE LET key == entries[1].key
             result == parseDataInstance(entries[1].obj, key, keys)
         IN  ParseDataInstances(Tail(entries), keys,
                IF result.ok
                  THEN [acc EXCEPT !.dataInstances =
                          Append(@, [key |-> key, info |-> result.info])]
                  ELSE [acc EXCEPT !.errors =
                          Append(@, <<"Failed to parse data instance", key, result.message>>)])

\* A property that verifyString rejects, or a field that is not set, and a
\* property that holds the string v.
NotAString == [isString |-> FALSE, value |-> ""]

AString(v) == [isString |-> TRUE, value |-> v]

\* new RepositoryInfo(obj); uuid is set later, by parseRepositoriesInfo.
RepositoryInfo(obj) ==
    IF obj.undefined
      THEN [ok |-> TRUE,
            info |-> [alias |-> NotAString, description |-> NotAString,
                      dataInstances |-> <<>>, errors |-> <<>>, nodes |-> {},
                      uuid |-> <<>>]]
    ELSE IF ~obj.Alias.isString THEN Throw(<<"Alias">>)
    ELSE IF ~obj.Description.isString THEN Throw(<<"Description">>)
    ELSE LET keys == [i \in DOMAIN obj.DataInstances |-> obj.DataInstances[i].key]
             loop == ParseDataInstances(obj.DataInstances, keys,
                                        [dataInstances |-> <<>>, errors |-> <<>>])
         IN  IF ~obj.DAG.ok
               THEN Throw(<<"DAG">>)
               ELSE [ok |-> TRUE,
                     info |-> [alias |-> obj.Alias, description |-> obj.Description,
                               dataInstances |-> loop.dataInstances,
                               errors |-> loop.errors,
                               nodes |-> obj.DAG.Nodes,
                               uuid |-> <<>>]]

\* The DataInstances objects of the model's servers: up to MaxInstances
\* instances under different keys, in the order of Object.keys.
RECURSIVE InstanceLists(_)
InstanceLists(n) ==
    IF n = 0 THEN {<<>>}
    ELSE LET shorter == InstanceLists(n - 1)
         IN  shorter \cup
             {Append(l, [key |-> k, obj |-> o]) :
                l \in {x \in shorter : Len(x) = n - 1},
                k \in InstanceKeys, o \in InstanceObjs}

DistinctKeys(l) == \A i, j \in DOMAIN l : i # j => l[i].key # l[j].key

\* The argument of new RepositoryInfo(undefined).
UndefinedObj ==
    [undefined |-> TRUE, Alias |-> NotAString, Description |-> NotAString,
     DataInstances |-> <<>>, DAG |-> [ok |-> FALSE, Nodes |-> {}]]

RepositoryObjs ==
    {UndefinedObj} \cup
    [undefined : {FALSE}, Alias : {NotAString, AString("repo")},
     Description : {NotAString, AString("a repository")},
     DataInstances : {l \in InstanceLists(MaxInstances) : DistinctKeys(l)},
     DAG : {[ok |-> FALSE, Nodes |-> {}], [ok |-> TRUE, Nodes |-> {<<"a", "b", "c">>}]}]

NoMetadata == [kind |-> "none"]

NotParsed == [ok |-> FALSE, message |-> <<>>]

\* A response that describes a repository is parsed.
ParseRepository ==
    /\ metadata = NoMetadata
    /\ \E obj \in RepositoryObjs :
          /\ metadata' = [kind |-> "repository", obj |-> obj]
          /\ parsed' = RepositoryInfo(obj)
    /\ UNCHANGED <<fetchVars, chunkVars, sourceVars, serverInfoVars, meshVars, downloadVars, rasterVars, sourceUrlVars, layerVars, repositoryVars, annotationVars, gpuVars, relationshipVars>>

(***************************************************************************)
(* Raster volume metadata: precomputed/backend.ts, ScaleInfo and            *)
(* parseMultiscaleVolumeInfo.                                               *)
(***************************************************************************)
\* The values of the 'chunk_sizes' property of a scale.
ChunkSizeLists == {<<>>, << <<64, 64, 64>> >>, << <<64, 64, 64>>, <<128, 128, 16>> >>}

\* A scale object: resolution and size verify or not, the chunk sizes, and the key.
ScaleObjs == [resolution : BOOLEAN, size : BOOLEAN, chunk_sizes : ChunkSizeLists,
              key : {"missing", "8_8_8"}]

\* new ScaleInfo(obj, numChannels) without the check of the number of chunk sizes.
ScaleInfo_acceptsNoChunkSizes(obj, numChannels) ==
    LET rank == IF numChannels = 1 THEN 3 ELSE 4
    IN  IF ~obj.resolution THEN Throw(<<"resolution">>)
        ELSE IF ~obj.size THEN Throw(<<"size">>)
        ELSE IF obj.key = "missing" THEN Throw(<<"key">>)
        ELSE [ok |-> TRUE,
              info |-> [key |-> obj.key, rank |-> rank, chunkSizes |-> obj.chunk_sizes]]

\* new ScaleInfo(obj, numChannels).
ScaleInfo(obj, numChannels) ==
    LET rank == IF numChannels = 1 THEN 3 ELSE 4
    IN  IF ~obj.resolution THEN Throw(<<"resolution">>)
        ELSE IF ~obj.size THEN Throw(<<"size">>)
        ELSE IF Len(obj.chunk_sizes) = 0 THEN Throw(<<"No chunk sizes specified.">>)
        ELSE IF obj.key = "missing" THEN Throw(<<"key">>)
        ELSE [ok |-> TRUE,
              info |-> [key |-> obj.key, rank |-> rank, chunkSizes |-> obj.chunk_sizes]]

\* parseArray(x, y => new ScaleInfo(y, numChannels)): the scale infos in order,
\* or the error of the first scale that throws.
RECURSIVE ParseScales(_, _, _)
ParseScales(objs, numChannels, acc) ==
    IF objs = <<>> THEN [ok |-> TRUE, info |-> acc]
    ELSE LET result == ScaleInfo(objs[1], numChannels)
         IN  IF result.ok
               THEN ParseScales(Tail(objs), numChannels, Append(acc, result.info))
               ELSE result

\* parseMultiscaleVolumeInfo(obj).
parseMultiscaleVolumeInfo(obj) ==
    IF ~obj.data_type THEN Throw(<<"data_type">>)
    ELSE IF obj.num_channels < 1 THEN Throw(<<"num_channels">>)
    ELSE IF ~obj.type THEN Throw(<<"type">>)
    ELSE LET scaleInfos == ParseScales(obj.scales, obj.num_channels, <<>>)
         IN  IF ~scaleInfos.ok THEN scaleInfos
             ELSE IF Len(scaleInfos.info) = 0 THEN Throw(<<"Expected at least one scale">>)
             ELSE [ok |-> TRUE,
                   info |-> [scales |-> scaleInfos.info,
                             rank |-> IF obj.num_channels = 1 THEN 3 ELSE 4,
                             baseScale |-> scaleInfos.info[1].key]]

\* The 'scales' lists of the model's servers: up to MaxScales scale objects.
RECURSIVE ScaleLists(_)
ScaleLists(n) ==
    IF n = 0 THEN {<<>>}
    ELSE LET shorter == ScaleLists(n - 1)
         IN  shorter \cup {Append(l, o) : l \in {x \in shorter : Len(x) = n - 1},
                                          o \in ScaleObjs}

VolumeInfoObjs ==
    [data_type : BOOLEAN, num_channels : {0, 1, 3}, type : BOOLEAN,
     scales : ScaleLists(MaxScales)]

\* An 'info' response of a raster volume is parsed.
ParseVolumeInfo ==
    /\ metadata = NoMetadata
    /\ \E obj \in VolumeInfoObjs :
          /\ metadata' = [kind |-> "volume info", obj |-> obj]
          /\ parsed' = parseMultiscaleVolumeInfo(obj)
    /\ UNCHANGED <<fetchVars, chunkVars, sourceVars, serverInfoVars, meshVars, downloadVars, rasterVars, sourceUrlVars, layerVars, repositoryVars, annotationVars, gpuVars, relationshipVars>>

InitMetadata ==
    /\ metadata = NoMetadata
    /\ parsed = NotParsed

NextMetadata ==
    \/ ParseRepository
    \/ ParseVolumeInfo

(***************************************************************************)
(* Mesh source: precomputed/backend.ts, MeshSource.  The source builds the   *)
(* request of a manifest and of a fragment; when each is called is decided   *)
(* by the mesh layer of the chunk manager (spec sections 4.2 and 8).         *)
(***************************************************************************)
FragmentIds == 1 .. MaxFragments

ObjectIds == {10, 11}

\* The parameters of the mesh source.
MeshParameters == [path |-> "mesh", lod |-> 0]

\* The lists of fragment ids a manifest may hold: different ids, in any order.
FragmentLists ==
    {l \in UNION {[1 .. n -> FragmentIds] : n \in 0 .. MaxFragments} :
        \A i, j \in DOMAIN l : i # j => l[i] # l[j]}

\* MeshSource.download: the path of the manifest of an object.
ManifestPath(parameters, objectId) == <<parameters.path, "/", objectId, ":", parameters.lod>>

\* MeshSource.downloadFragment: the path of a fragment.
FragmentPath(parameters, fragmentId) == <<parameters.path, "/", fragmentId>>

\* The mesh object is requested: its manifest chunk is created unless it exists.
RequestObject(objectId) ==
    /\ manifest.state = "absent"
    /\ manifest' = [state |-> "queued", objectId |-> objectId, fragments |-> <<>>]
    /\ UNCHANGED <<fragment, meshLog>>
    /\ UNCHANGED <<fetchVars, chunkVars, sourceVars, serverInfoVars, metadataVars, downloadVars, rasterVars, sourceUrlVars, layerVars, repositoryVars, annotationVars, gpuVars, relationshipVars>>

\* MeshSource.download(chunk): the manifest request goes out.
DownloadManifest ==
    /\ manifest.state = "queued"
    /\ manifest' = [manifest EXCEPT !.state = "fetching"]
    /\ meshLog' = Append(meshLog, ManifestPath(MeshParameters, manifest.objectId))
    /\ UNCHANGED fragment
    /\ UNCHANGED <<fetchVars, chunkVars, sourceVars, serverInfoVars, metadataVars, downloadVars, rasterVars, sourceUrlVars, layerVars, repositoryVars, annotationVars, gpuVars, relationshipVars>>

\* The manifest request is answered.  decodeManifestChunk reads the 'fragments'
\* property of the response; the fragment chunks of a resident manifest are queued.
ManifestResponse(ok, fragments) ==
    /\ manifest.state = "fetching"
    /\ IF ok
         THEN /\ manifest' = [manifest EXCEPT !.state = "resident", !.fragments = fragments]
              /\ fragment' = [f \in FragmentIds |->
                                IF \E i \in DOMAIN fragments : fragments[i] = f
                                  THEN "queued" ELSE fragment[f]]
         ELSE /\ manifest' = [manifest EXCEPT !.state = "failed"]
              /\ UNCHANGED fragment
    /\ UNCHANGED meshLog
    /\ UNCHANGED <<fetchVars, chunkVars, sourceVars, serverInfoVars, metadataVars, downloadVars, rasterVars, sourceUrlVars, layerVars, repositoryVars, annotationVars, gpuVars, relationshipVars>>

\* A fragment chunk whose request is sent again while it is in flight.
CanDownloadFragment_whileFetching(f) ==
    manifest.state = "resident" /\ fragment[f] \in {"queued", "fetching"}

\* A fragment is fetched once its chunk is queued, which the resident manifest made it.
CanDownloadFragment(f) ==
    manifest.state = "resident" /\ fragment[f] = "queued"

\* MeshSource.downloadFragment(chunk): the fragment request goes out.
DownloadFragment(f) ==
    /\ CanDownloadFragment(f)
    /\ fragment' = [fragment EXCEPT ![f] = "fetching"]
    /\ meshLog' = Append(meshLog, FragmentPath(MeshParameters, f))
    /\ UNCHANGED manifest
    /\ UNCHANGED <<fetchVars, chunkVars, sourceVars, serverInfoVars, metadataVars, downloadVars, rasterVars, sourceUrlVars, layerVars, repositoryVars, annotationVars, gpuVars, relationshipVars>>

\* The request of fragment f is answered and decodeFragmentChunk has run.
FragmentResponse(f, ok) ==
    /\ fragment[f] = "fetching"
    /\ fragment' = [fragment EXCEPT ![f] = IF ok THEN "resident" ELSE "failed"]
    /\ UNCHANGED <<manifest, meshLog>>
    /\ UNCHANGED <<fetchVars, chunkVars, sourceVars, serverInfoVars, metadataVars, downloadVars, rasterVars, sourceUrlVars, layerVars, repositoryVars, annotationVars, gpuVars, relationshipVars>>

\* The fetch of fragment f is cancelled.
CancelFragment(f) ==
    /\ fragment[f] \in {"queued", "fetching"}
    /\ fragment' = [fragment EXCEPT ![f] = IF @ = "queued" THEN "cancelled"
                                                           ELSE "cancelled in flight"]
    /\ UNCHANGED <<manifest, meshLog>>
    /\ UNCHANGED <<fetchVars, chunkVars, sourceVars, serverInfoVars, metadataVars, downloadVars, rasterVars, sourceUrlVars, layerVars, repositoryVars, annotationVars, gpuVars, relationshipVars>>

InitMesh ==
    /\ manifest = [state |-> "absent", objectId |-> 0, fragments |-> <<>>]
    /\ fragment = [f \in FragmentIds |-> "absent"]
    /\ meshLog = <<>>

NextMesh ==
    \/ \E objectId \in ObjectIds : RequestObject(objectId)
    \/ DownloadManifest
    \/ \E ok \in BOOLEAN, fragments \in FragmentLists : ManifestResponse(ok, fragments)
    \/ \E f \in FragmentIds : DownloadFragment(f)
    \/ \E f \in FragmentIds, ok \in BOOLEAN : FragmentResponse(f, ok)
    \/ \E f \in FragmentIds : CancelFragment(f)

(***************************************************************************)
(* Chunk download: the download methods of the chunk sources of the DVID     *)
(* backend and of precomputed/backend.ts.  A download starts an HTTP request;*)
(* what the chunk manager does with the chunk when the request settles or    *)
(* the chunk is cancelled follows spec sections 4.1, 4.2 and 7.              *)
(***************************************************************************)
Variants ==
    {"dvid/VolumeChunkSource", "dvid/TileChunkSource", "dvid/SkeletonSource",
     "precomputed/VolumeChunkSource", "precomputed/MeshSource.download",
     "precomputed/MeshSource.downloadFragment"}

\* Every download handing the token on.
PassesCancellationToken_all(variant) == TRUE

\* The download method of the variant takes the chunk's cancellation token and
\* passes it to sendHttpRequest.  The others call sendHttpRequest without one.
PassesCancellationToken(variant) ==
    variant \in {"dvid/VolumeChunkSource", "dvid/TileChunkSource"}

\* The statuses a chunk request is answered with: success, a permanent error,
\* the transient gateway timeout.
ChunkStatuses == {200, 404, 504}

\* The taxonomy with a decode error taken for a transient failure.
Outcome_decodeErrorRetried(status, decodes) ==
    IF status = 200 THEN (IF decodes THEN "ok" ELSE "retryable")
    ELSE IF status = 504 THEN "retryable" ELSE "permanent"

\* The outcome of a settled download: decoded, a decode error, a retryable
\* failure or a permanent one.
Outcome(status, decodes) ==
    IF status = 200 THEN (IF decodes THEN "ok" ELSE "decode error")
    ELSE IF status = 504 THEN "retryable" ELSE "permanent"

NoDownload ==
    [variant |-> "none", state |-> "absent", cancelled |-> FALSE, cancelledInFlight |-> FALSE,
     inFlight |-> FALSE, xhr |-> "none", promise |-> "none", outcome |-> "none",
     status |-> 0, decoded |-> FALSE,
     attempts |-> 0, retries |-> 0, reported |-> 0, failedEpoch |-> 0]

\* A chunk of a source of the variant is requested.
RequestChunk(variant) ==
    /\ download.state = "absent"
    /\ download' = [download EXCEPT !.variant = variant, !.state = "queued"]
    /\ UNCHANGED downloadEpoch
    /\ UNCHANGED <<fetchVars, chunkVars, sourceVars, serverInfoVars, metadataVars, meshVars, rasterVars, sourceUrlVars, layerVars, repositoryVars, annotationVars, gpuVars, relationshipVars>>

\* source.download(chunk, cancellationToken): the request is sent.
StartDownload ==
    /\ download.state = "queued"
    /\ download' = [download EXCEPT !.state = "fetching", !.inFlight = TRUE,
                                    !.xhr = "open", !.promise = "pending",
                                    !.attempts = @ + 1]
    /\ UNCHANGED downloadEpoch
    /\ UNCHANGED <<fetchVars, chunkVars, sourceVars, serverInfoVars, metadataVars, meshVars, rasterVars, sourceUrlVars, layerVars, repositoryVars, annotationVars, gpuVars, relationshipVars>>

\* A handler of the settled download that does not look at the cancellation.
IgnoresSettlement_never(d) == FALSE

\* The chunk manager drops the settlement of a download whose chunk was cancelled.
IgnoresSettlement(d) == d.cancelled

\* The request is answered and, on success, the decoder has run on the response.
\* A failure that can be retried puts the chunk back in the queue; a permanent
\* failure or a decode error marks it failed and is reported.
HttpResponse(status, decodes) ==
    /\ download.xhr = "open"
    /\ LET outcome == Outcome(status, decodes)
           settled == [download EXCEPT !.xhr = "done",
                                       !.status = status,
                                       !.decoded = status = 200 /\ decodes,
                                       !.promise = IF outcome = "ok" THEN "fulfilled"
                                                                     ELSE "rejected"]
       IN  IF IgnoresSettlement(download)
             THEN download' = settled
             ELSE /\ outcome = "retryable" => download.retries < MaxChunkRetries
                  /\ download' =
                        [settled EXCEPT
                            !.inFlight = FALSE,
                            !.outcome = outcome,
                            !.state = CASE outcome = "ok" -> "resident"
                                        [] outcome = "retryable" -> "queued"
                                        [] OTHER -> "failed",
                            !.retries = IF outcome = "retryable" THEN @ + 1 ELSE @,
                            !.reported = IF outcome \in {"permanent", "decode error"}
                                           THEN @ + 1 ELSE @,
                            !.failedEpoch = IF outcome \in {"permanent", "decode error"}
                                              THEN downloadEpoch ELSE @]
    /\ UNCHANGED downloadEpoch
    /\ UNCHANGED <<fetchVars, chunkVars, sourceVars, serverInfoVars, metadataVars, meshVars, rasterVars, sourceUrlVars, layerVars, repositoryVars, annotationVars, gpuVars, relationshipVars>>

\* The chunk is cancelled: its token is cancelled and the chunk leaves the
\* bookkeeping.  A request that was given the token is aborted, which rejects
\* the promise; a request without it goes on.
CancelDownload ==
    /\ download.state \in {"queued", "fetching"}
    /\ LET started == download.state = "fetching"
           aborts == started /\ PassesCancellationToken(download.variant)
       IN  download' = [download EXCEPT
                            !.state = "cancelled", !.cancelled = TRUE,
                            !.cancelledInFlight = started,
                            !.inFlight = FALSE,
                            !.xhr = IF aborts THEN "aborted" ELSE @,
                            !.promise = IF aborts THEN "rejected" ELSE @]
    /\ UNCHANGED downloadEpoch
    /\ UNCHANGED <<fetchVars, chunkVars, sourceVars, serverInfoVars, metadataVars, meshVars, rasterVars, sourceUrlVars, layerVars, repositoryVars, annotationVars, gpuVars, relationshipVars>>

\* The viewport changes with the chunk still visible: a failed chunk is
\* requested afresh.
NewEpoch ==
    /\ downloadEpoch < MaxEpoch
    /\ download.state # "absent"
    /\ downloadEpoch' = downloadEpoch + 1
    /\ download' = IF download.state = "failed"
                     THEN [download EXCEPT !.state = "queued", !.retries = 0]
                     ELSE download
    /\ UNCHANGED <<fetchVars, chunkVars, sourceVars, serverInfoVars, metadataVars, meshVars, rasterVars, sourceUrlVars, layerVars, repositoryVars, annotationVars, gpuVars, relationshipVars>>

InitDownload ==
    /\ download = NoDownload
    /\ downloadEpoch = 1

NextDownload ==
    \/ \E variant \in Variants : RequestChunk(variant)
    \/ StartDownload
    \/ \E status \in ChunkStatuses, decodes \in BOOLEAN : HttpResponse(status, decodes)
    \/ CancelDownload
    \/ NewEpoch

(***************************************************************************)
(* The raster volume source (precomputed/backend.ts, VolumeChunkSource).    *)
(* A path is the sequence of the pieces its template string is put together *)
(* from, each number written out in decimal as the template does.           *)
(***************************************************************************)

\* The parameters of the model's raster sources.
RasterParameters ==
    {[baseUrls |-> <<"https://a", "https://b">>, path |-> "image"],
     [baseUrls |-> <<"https://a">>, path |-> "seg/8_8_8"]}

\* The chunks of the model: computeChunkBounds(chunk) gives the voxel position
\* of the chunk and leaves its data size in chunk.chunkDataSize.
RasterChunks ==
    {[chunkPosition |-> cp, chunkDataSize |-> cds] :
        cp \in {<<0, 0, 0>>, <<64, 0, 128>>, <<-64, 64, 0>>},
        cds \in {<<64, 64, 64>>, <<32, 32, 16>>}}

\* The upper coordinates are the chunk size alone.
RasterPath_upperIsSize(parameters, chunkPosition, chunkDataSize) ==
    <<parameters.path, "/",
      ToString(chunkPosition[1]), "-", ToString(chunkDataSize[1]), "_",
      ToString(chunkPosition[2]), "-", ToString(chunkDataSize[2]), "_",
      ToString(chunkPosition[3]), "-", ToString(chunkDataSize[3])>>

\* The path template of VolumeChunkSource.download.
RasterPath(parameters, chunkPosition, chunkDataSize) ==
    <<parameters.path, "/",
      ToString(chunkPosition[1]), "-", ToString(chunkPosition[1] + chunkDataSize[1]), "_",
      ToString(chunkPosition[2]), "-", ToString(chunkPosition[2] + chunkDataSize[2]), "_",
      ToString(chunkPosition[3]), "-", ToString(chunkPosition[3] + chunkDataSize[3])>>

\* VolumeChunkSource.download(chunk): sends the request for the chunk's path.
\* The log keeps the chunk and the parameters next to the request.
DownloadRaster(parameters, chunk) ==
    /\ Len(rasterLog) < MaxDownloads
    /\ LET chunkPosition == chunk.chunkPosition
           chunkDataSize == chunk.chunkDataSize
           path == RasterPath(parameters, chunkPosition, chunkDataSize)
       IN  rasterLog' = Append(rasterLog,
                               [parameters |-> parameters, chunk |-> chunk,
                                baseUrls |-> parameters.baseUrls, path |-> path,
                                responseType |-> "arraybuffer"])
    /\ UNCHANGED <<fetchVars, chunkVars, sourceVars, serverInfoVars, metadataVars, meshVars, downloadVars, sourceUrlVars, layerVars, repositoryVars, annotationVars, gpuVars, relationshipVars>>

InitRaster == rasterLog = <<>>

NextRaster ==
    \E parameters \in RasterParameters, chunk \in RasterChunks :
        DownloadRaster(parameters, chunk)

(***************************************************************************)
(* The source URL of a Clio data source (precomputed/backend.ts,            *)
(* parseSourceUrl).  A URL is held as the parts urlPattern splits it into:  *)
(* the base URL, the dataset and the query string, the latter as the list   *)
(* of its key=value parts (absent when the URL has no '?').                 *)
(***************************************************************************)
ParameterKeys == {"token", "auth", "user", "kind"}

Undefined == [defined |-> FALSE, value |-> ""]

Defined(v) == [defined |-> TRUE, value |-> v]

\* A value that an if statement takes as true: a defined, non-empty string.
Truthy(x) == x.defined /\ x.value # ""

\* The values the parameters of the model's URLs take; each may be left out.
ParameterValues(key) ==
    CASE key = "token" -> {"", "t1", "bad"}
      [] key = "auth" -> {"", "https://auth"}
      [] key = "user" -> {"", "bob"}
      [] key = "kind" -> {"", "atlas", "Other"}

\* The query strings of the model: no '?', a bare '?', or the given parameters
\* in the order token, auth, user, kind.
RECURSIVE QueryParts(_, _)
QueryParts(keys, choice) ==
    IF keys = <<>> THEN <<>>
    ELSE LET key == keys[1]
             rest == QueryParts(Tail(keys), choice)
         IN  IF choice[key].defined
               THEN <<[key |-> key, value |-> choice[key].value]>> \o rest
               ELSE rest

ParameterChoices ==
    {c \in [ParameterKeys -> {Undefined} \cup {Defined(v) : v \in {"", "t1", "bad", "https://auth", "bob", "atlas", "Other"}}] :
        \A key \in ParameterKeys : c[key].defined => c[key].value \in ParameterValues(key)}

SourceUrls ==
    {[baseUrl |-> "https://clio", dataset |-> d, hasQuery |-> FALSE, parts |-> <<>>] :
        d \in {"", "mb20"}}
    \cup {[baseUrl |-> "https://clio", dataset |-> "mb20", hasQuery |-> TRUE,
           parts |-> QueryParts(<<"token", "auth", "user", "kind">>, c)] :
             c \in ParameterChoices}

\* url.match(urlPattern): the dataset is one or more characters.
MatchesUrlPattern(url) == url.dataset # ""

\* match[3], the query string with its '?', is longer than one character.
QueryStringLongerThanOne(url) == url.hasQuery /\ url.parts # <<>>

\* parseQueryStringParameters(queryString.substring(1)): the value of each key
\* the query string holds.
parseQueryStringParameters(parts) ==
    [key \in ParameterKeys |->
        IF \E j \in DOMAIN parts : parts[j].key = key
          THEN Defined(parts[CHOOSE j \in DOMAIN parts : parts[j].key = key].value)
          ELSE Undefined]

\* getUserFromToken(token): the user a token was issued to, if it names one.
getUserFromToken(token) ==
    IF token = "t1" THEN Defined("alice") ELSE Undefined

NoSourceParameters ==
    [ok |-> FALSE, baseUrl |-> "", dataset |-> "",
     authToken |-> Undefined, authServer |-> Undefined, user |-> Undefined, kind |-> Undefined]

\* parseSourceUrl(url); not ok when it throws 'Invalid Clio URL'.
parseSourceUrl(url) ==
    IF ~MatchesUrlPattern(url) THEN NoSourceParameters
    ELSE
    LET base == [NoSourceParameters EXCEPT !.ok = TRUE, !.baseUrl = url.baseUrl,
                                           !.dataset = url.dataset]
    IN  IF ~QueryStringLongerThanOne(url) THEN base
        ELSE
        LET parameters == parseQueryStringParameters(url.parts)
            authToken == IF Truthy(parameters["token"]) THEN parameters["token"] ELSE Undefined
        IN  [base EXCEPT
               !.authToken = authToken,
               !.authServer = IF Truthy(parameters["token"])
                                THEN Defined("token:" \o parameters["token"].value)
                              ELSE IF Truthy(parameters["auth"]) THEN parameters["auth"]
                              ELSE Undefined,
               !.user = IF Truthy(parameters["user"]) THEN parameters["user"]
                        ELSE IF Truthy(authToken) THEN getUserFromToken(authToken.value)
                        ELSE Undefined,
               !.kind = IF Truthy(parameters["kind"])
                          THEN IF parameters["kind"].value = "atlas" THEN Defined("Atlas")
                               ELSE parameters["kind"]
                          ELSE Defined("Normal")]

NoUrl == [baseUrl |-> "", dataset |-> "", hasQuery |-> FALSE, parts |-> <<>>]

\* A source URL is resolved: parseSourceUrl(url).
ResolveSourceUrl ==
    /\ ~urlResolved
    /\ \E url \in SourceUrls :
          /\ sourceUrl' = url
          /\ sourceParameters' = parseSourceUrl(url)
    /\ urlResolved' = TRUE
    /\ UNCHANGED <<fetchVars, chunkVars, sourceVars, serverInfoVars, metadataVars, meshVars, downloadVars, rasterVars, layerVars, repositoryVars, annotationVars, gpuVars, relationshipVars>>

InitSourceUrl ==
    /\ sourceUrl = NoUrl
    /\ sourceParameters = NoSourceParameters
    /\ urlResolved = FALSE

NextSourceUrl == ResolveSourceUrl

(***************************************************************************)
(* Segmentation layer (segmentation_display_state/backend.ts): the backend  *)
(* counterpart of a segmentation layer and the chunk manager it belongs to. *)
(* The chunk manager computes the chunk priorities from the layer's state   *)
(* and dispatches fetches by them.                                          *)
(***************************************************************************)
Segments == {1, 2}

\* The state of the layer the chunk priorities depend on.
LayerState ==
    [visible |-> layer.visible, visibleSegments |-> layer.visibleSegments,
     segmentEquivalences |-> layer.segmentEquivalences]

\* chunkManager.scheduleUpdateChunkPriorities(): an update of the chunk
\* priorities is pending from now on.
scheduleUpdateChunkPriorities ==
    /\ updatePending' = TRUE
    /\ scheduleCalls' = scheduleCalls + 1

\* The handler that stores the value and schedules nothing.
OnVisibilityChange_noSchedule(value) ==
    /\ handled < MaxMessages
    /\ handled' = handled + 1
    /\ visibleReceived' = value
    /\ layer' = [layer EXCEPT !.visible = value]
    /\ UNCHANGED <<updatePending, scheduleCalls>>
    /\ UNCHANGED <<priorityInputs, fetchLog>>
    /\ UNCHANGED <<fetchVars, chunkVars, sourceVars, serverInfoVars, metadataVars, meshVars, downloadVars, rasterVars, sourceUrlVars, repositoryVars, annotationVars, gpuVars, relationshipVars>>

\* The handler that schedules an update for every message.
OnVisibilityChange_alwaysSchedules(value) ==
    /\ handled < MaxMessages
    /\ handled' = handled + 1
    /\ visibleReceived' = value
    /\ layer' = [layer EXCEPT !.visible = value]
    /\ scheduleUpdateChunkPriorities
    /\ UNCHANGED <<priorityInputs, fetchLog>>
    /\ UNCHANGED <<fetchVars, chunkVars, sourceVars, serverInfoVars, metadataVars, meshVars, downloadVars, rasterVars, sourceUrlVars, repositoryVars, annotationVars, gpuVars, relationshipVars>>

\* The handler of ON_VISIBILITY_CHANGE_METHOD_ID for the message {id, visible: value}.
OnVisibilityChange(value) ==
    /\ handled < MaxMessages
    /\ handled' = handled + 1
    /\ visibleReceived' = value
    /\ IF layer.visible # value
         THEN /\ layer' = [layer EXCEPT !.visible = value]
              /\ scheduleUpdateChunkPriorities
         ELSE UNCHANGED <<layer, updatePending, scheduleCalls>>
    /\ UNCHANGED <<priorityInputs, fetchLog>>
    /\ UNCHANGED <<fetchVars, chunkVars, sourceVars, serverInfoVars, metadataVars, meshVars, downloadVars, rasterVars, sourceUrlVars, repositoryVars, annotationVars, gpuVars, relationshipVars>>

\* The set of visible segments changes to segments: visibleSegments.changed is
\* dispatched and runs the binding the constructor registered.
VisibleSegmentsChanged(segments) ==
    /\ scheduleCalls < MaxMessages
    /\ segments # layer.visibleSegments
    /\ layer' = [layer EXCEPT !.visibleSegments = segments]
    /\ scheduleUpdateChunkPriorities
    /\ UNCHANGED <<handled, visibleReceived, priorityInputs, fetchLog>>
    /\ UNCHANGED <<fetchVars, chunkVars, sourceVars, serverInfoVars, metadataVars, meshVars, downloadVars, rasterVars, sourceUrlVars, repositoryVars, annotationVars, gpuVars, relationshipVars>>

\* Segments 1 and 2 are linked or unlinked: segmentEquivalences.changed is
\* dispatched and runs the binding the constructor registered.
SegmentEquivalencesChanged(linked) ==
    /\ scheduleCalls < MaxMessages
    /\ linked # layer.segmentEquivalences
    /\ layer' = [layer EXCEPT !.segmentEquivalences = linked]
    /\ scheduleUpdateChunkPriorities
    /\ UNCHANGED <<handled, visibleReceived, priorityInputs, fetchLog>>
    /\ UNCHANGED <<fetchVars, chunkVars, sourceVars, serverInfoVars, metadataVars, meshVars, downloadVars, rasterVars, sourceUrlVars, repositoryVars, annotationVars, gpuVars, relationshipVars>>

\* The chunk manager runs the pending update: the chunk priorities are computed
\* anew from the state of the layer.
UpdateChunkPriorities ==
    /\ updatePending
    /\ updatePending' = FALSE
    /\ priorityInputs' = LayerState
    /\ UNCHANGED <<layer, handled, visibleReceived, scheduleCalls, fetchLog>>
    /\ UNCHANGED <<fetchVars, chunkVars, sourceVars, serverInfoVars, metadataVars, meshVars, downloadVars, rasterVars, sourceUrlVars, repositoryVars, annotationVars, gpuVars, relationshipVars>>

\* The chunk manager dispatches a new fetch by the priorities it holds; a
\* pending update of the priorities runs first.
DispatchFetch ==
    /\ ~updatePending
    /\ Len(fetchLog) < MaxDownloads
    /\ fetchLog' = Append(fetchLog, [priorityInputs |-> priorityInputs, layer |-> LayerState])
    /\ UNCHANGED <<layer, updatePending, priorityInputs, handled, visibleReceived, scheduleCalls>>
    /\ UNCHANGED <<fetchVars, chunkVars, sourceVars, serverInfoVars, metadataVars, meshVars, downloadVars, rasterVars, sourceUrlVars, repositoryVars, annotationVars, gpuVars, relationshipVars>>

\* new SegmentationLayerSharedObjectCounterpart(rpc, options): visible = false.
InitLayer ==
    /\ layer = [visible |-> FALSE, visibleSegments |-> {}, segmentEquivalences |-> FALSE]
    /\ updatePending = FALSE
    /\ priorityInputs = [visible |-> FALSE, visibleSegments |-> {}, segmentEquivalences |-> FALSE]
    /\ handled = 0
    /\ visibleReceived = FALSE
    /\ scheduleCalls = 0
    /\ fetchLog = <<>>

NextLayer ==
    \/ \E value \in BOOLEAN : OnVisibilityChange(value)
    \/ \E segments \in SUBSET Segments : VisibleSegmentsChanged(segments)
    \/ \E linked \in BOOLEAN : SegmentEquivalencesChanged(linked)
    \/ UpdateChunkPriorities
    \/ DispatchFetch

(***************************************************************************)
(* Server info: dvid/frontend.ts, parseRepositoriesInfo and ServerInfo.     *)
(* A node key is the sequence of its characters.  A Map is the set of its   *)
(* entries, one per key.                                                    *)
(***************************************************************************)
KeyAbc == <<"a", "b", "c">>
KeyAbd == <<"a", "b", "d">>
KeyXyz == <<"x", "y", "z">>
KeyXy1 == <<"x", "y", "1">>

\* The repositories of the model's servers.  The nodes of a DVID repository
\* have keys of their own: no key belongs to two repositories.
ServerDataInstances ==
    {<<>>,
     <<[key |-> <<"grayscale", 0>>, obj |-> [Base |-> "uint8blk", Extended |-> "valid"]]>>,
     <<[key |-> <<"tiles", 0>>, obj |-> [Base |-> "keyvalue", Extended |-> "valid"]]>>}

ServerRepositories(key, aliases, nodeSets) ==
    {[key |-> key,
      obj |-> [undefined |-> FALSE, Alias |-> a, Description |-> AString("a repository"),
               DataInstances |-> l, DAG |-> g]] :
        a \in aliases, l \in ServerDataInstances,
        g \in {[ok |-> TRUE, Nodes |-> n] : n \in nodeSets} \cup {[ok |-> FALSE, Nodes |-> {}]}}

RepositoriesAbc ==
    ServerRepositories(KeyAbc, {NotAString, AString("one")},
                       {{KeyAbc}, {KeyAbc, KeyAbd}, {KeyAbd}})

RepositoriesXyz ==
    ServerRepositories(KeyXyz, {AString("two")}, {{KeyXyz}, {KeyXyz, KeyXy1}})

\* The responses of /api/repos/info: one or two repositories, in either order.
ServerObjs ==
    {<<r>> : r \in RepositoriesAbc \cup RepositoriesXyz}
    \cup (RepositoriesAbc \X RepositoriesXyz)
    \cup (RepositoriesXyz \X RepositoriesAbc)

\* The node keys getNode is asked for.
NodeKeys == {KeyAbc, KeyAbd, KeyXyz, KeyXy1, <<"a", "b">>, <<"x">>, <<"q">>, <<>>}

\* map.set(key, info).
MapSet(map, key, info) ==
    {entry \in map : entry.key # key} \cup {[key |-> key, info |-> info]}

\* verifyObjectAsMap(obj, x => new RepositoryInfo(x)): the result of the
\* constructor for each repository, in the order of the object's keys.
RepositoryInfos(obj) ==
    [i \in DOMAIN obj |-> [key |-> obj[i].key, parse |-> RepositoryInfo(obj[i].obj)]]

\* The loop over result that fills temp: each repository under its key, and
\* under each other key of its nodes a new RepositoryInfo that takes its alias,
\* description, errors and dataInstances.
RECURSIVE FillTemp(_, _)
FillTemp(result, temp) ==
    IF result = <<>> THEN temp
    ELSE LET key == result[1].key
             info == result[1].parse.info
             rep == [RepositoryInfo(UndefinedObj).info EXCEPT
                        !.alias = info.alias, !.description = info.description,
                        !.errors = info.errors, !.dataInstances = info.dataInstances]
             others == info.nodes \ {key}
             withRoot == MapSet(temp, key, info)
         IN  FillTemp(Tail(result),
                      {entry \in withRoot : entry.key \notin others}
                      \cup {[key |-> key2, info |-> rep] : key2 \in others})

\* The loop that sets info.uuid = key for every entry of temp.
SetUuids(temp) == {[entry EXCEPT !.info.uuid = entry.key] : entry \in temp}

NoRepositories == [parsed |-> FALSE, ok |-> FALSE, entries |-> {}]

\* The map of the repositories alone, without entries for their nodes.
parseRepositoriesInfo_rootsOnly(obj) ==
    LET result == RepositoryInfos(obj)
    IN  IF \E i \in DOMAIN result : ~result[i].parse.ok
          THEN [parsed |-> TRUE, ok |-> FALSE, entries |-> {}]
          ELSE [parsed |-> TRUE, ok |-> TRUE,
                entries |-> SetUuids({[key |-> result[i].key, info |-> result[i].parse.info] :
                                         i \in DOMAIN result})]

\* parseRepositoriesInfo(obj); not ok when it throws 'Failed to parse DVID
\* repositories info'.
parseRepositoriesInfo(obj) ==
    LET result == RepositoryInfos(obj)
    IN  IF \E i \in DOMAIN result : ~result[i].parse.ok
          THEN [parsed |-> TRUE, ok |-> FALSE, entries |-> {}]
          ELSE [parsed |-> TRUE, ok |-> TRUE, entries |-> SetUuids(FillTemp(result, {}))]

\* new ServerInfo(obj).
ConstructServerInfo ==
    /\ ~repositories.parsed
    /\ \E obj \in ServerObjs :
          /\ serverObj' = obj
          /\ repositories' = parseRepositoriesInfo(obj)
    /\ UNCHANGED nodeLookup
    /\ UNCHANGED <<fetchVars, chunkVars, sourceVars, serverInfoVars, metadataVars, meshVars, downloadVars, rasterVars, sourceUrlVars, layerVars, annotationVars, gpuVars, relationshipVars>>

\* this.repositories.get(key).
RepositoriesGet(key) ==
    IF \E entry \in repositories.entries : entry.key = key
      THEN [defined |-> TRUE,
            info |-> (CHOOSE entry \in repositories.entries : entry.key = key).info]
      ELSE [defined |-> FALSE, info |-> RepositoryInfo(UndefinedObj).info]

\* ServerInfo.getNode(nodeKey): throws unless exactly one key starts with
\* nodeKey, and returns this.repositories.get(nodeKey).
getNode(nodeKey) ==
    LET matches == {entry.key : entry \in {x \in repositories.entries : startsWith(x.key, nodeKey)}}
    IN  IF Cardinality(matches) # 1
          THEN [called |-> TRUE, nodeKey |-> nodeKey, threw |-> TRUE,
                result |-> RepositoriesGet(<<"none">>)]
          ELSE [called |-> TRUE, nodeKey |-> nodeKey, threw |-> FALSE,
                result |-> RepositoriesGet(nodeKey)]

\* serverInfo.getNode(nodeKey) is called, as getShardedVolume does.
GetNode(nodeKey) ==
    /\ repositories.parsed /\ repositories.ok
    /\ nodeLookup' = getNode(nodeKey)
    /\ UNCHANGED <<serverObj, repositories>>
    /\ UNCHANGED <<fetchVars, chunkVars, sourceVars, serverInfoVars, metadataVars, meshVars, downloadVars, rasterVars, sourceUrlVars, layerVars, annotationVars, gpuVars, relationshipVars>>

InitRepositories ==
    /\ serverObj = <<>>
    /\ repositories = NoRepositories
    /\ nodeLookup = [called |-> FALSE, nodeKey |-> <<>>, threw |-> FALSE,
                     result |-> [defined |-> FALSE, info |-> RepositoryInfo(UndefinedObj).info]]

NextRepositories ==
    \/ ConstructServerInfo
    \/ \E nodeKey \in NodeKeys : GetNode(nodeKey)

(***************************************************************************)
(* Annotation geometry (precomputed/backend.ts, AnnotationDataInfo and      *)
(* makeAnnotationGeometrySourceSpecifications).                             *)
(***************************************************************************)

\* The first scale of the 'info' of the model's datasets: voxel_offset is any
\* integer vector and size a positive one.  Every upper bound of the model is
\* positive, so that Uint32Array.from keeps its value.
AnnotationScales ==
    {[resolution |-> <<8, 8, 8>>, voxelOffset |-> o, size |-> s] :
        o \in [Axes -> {-8, 0, 4}], s \in [Axes -> {12, 16}]}

NoDataInfo == [defined |-> FALSE, voxelSize |-> <<0, 0, 0>>,
               lowerVoxelBound |-> <<0, 0, 0>>, upperVoxelBound |-> <<0, 0, 0>>]

\* new AnnotationDataInfo(obj), for the first scale parseMultiscaleVolumeInfo(obj) gives.
AnnotationDataInfo(scale) ==
    [defined |-> TRUE,
     voxelSize |-> scale.resolution,
     lowerVoxelBound |-> scale.voxelOffset,
     upperVoxelBound |-> [i \in Axes |-> scale.voxelOffset[i] + scale.size[i]]]

\* makeSliceViewChunkSpecification(options): the specification holds the rank,
\* the size of a chunk and the bounds it was given.
makeSliceViewChunkSpecification(options) ==
    [rank |-> options.rank,
     chunkDataSize |-> options.chunkDataSize,
     lowerVoxelBound |-> options.lowerVoxelBound,
     upperVoxelBound |-> options.upperVoxelBound]

\* makeSpec(info) of makeAnnotationGeometrySourceSpecifications.
makeSpec(info) ==
    LET chunkDataSize == info.upperVoxelBound
    IN  [spec |-> makeSliceViewChunkSpecification(
                     [rank |-> 3, chunkDataSize |-> chunkDataSize,
                      upperVoxelBound |-> info.upperVoxelBound,
                      lowerVoxelBound |-> info.lowerVoxelBound]),
         chunkToMultiscaleTransform |-> "identity"]

\* makeAnnotationGeometrySourceSpecifications(dataInfo).
makeAnnotationGeometrySourceSpecifications(info) == << <<makeSpec(info)>> >>

\* getAnnotationDataInfo(parameters) receives the 'info' of the dataset.
GetAnnotationDataInfo ==
    /\ ~dataInfo.defined
    /\ \E scale \in AnnotationScales : dataInfo' = AnnotationDataInfo(scale)
    /\ UNCHANGED geometrySpecs
    /\ UNCHANGED <<fetchVars, chunkVars, sourceVars, serverInfoVars, metadataVars, meshVars, downloadVars, rasterVars, sourceUrlVars, layerVars, repositoryVars, gpuVars, relationshipVars>>

\* The annotation source asks for the specifications of its geometry.
MakeGeometrySpecifications ==
    /\ dataInfo.defined
    /\ geometrySpecs = <<>>
    /\ geometrySpecs' = makeAnnotationGeometrySourceSpecifications(dataInfo)
    /\ UNCHANGED dataInfo
    /\ UNCHANGED <<fetchVars, chunkVars, sourceVars, serverInfoVars, metadataVars, meshVars, downloadVars, rasterVars, sourceUrlVars, layerVars, repositoryVars, gpuVars, relationshipVars>>

InitAnnotation ==
    /\ dataInfo = NoDataInfo
    /\ geometrySpecs = <<>>

NextAnnotation ==
    \/ GetAnnotationDataInfo
    \/ MakeGeometrySpecifications

(***************************************************************************)
(* GPU residency of a volume chunk (sliceview/single_texture_chunk_format,  *)
(* SingleTextureVolumeChunk).  A WebGL texture is a positive number, 0 is   *)
(* null; the context keeps the textures that were created and not deleted,  *)
(* the active texture unit and the texture bound to each unit.              *)
(***************************************************************************)
GpuChunks == 1 .. NumGpuChunks

\* gl.createTexture(): the texture the context hands out next.
CreatedTexture(gl) == gl.count + 1

createTexture(gl) == [gl EXCEPT !.count = @ + 1, !.live = @ \cup {gl.count + 1}]

\* gl.activeTexture(gl.TEXTURE0 + unit).
activeTexture(gl, unit) == [gl EXCEPT !.active = unit]

\* gl.bindTexture(gl.TEXTURE_2D, texture).
bindTexture(gl, texture) == [gl EXCEPT !.bound[gl.active] = texture]

\* gl.deleteTexture(texture): the texture is deleted and unbound; null is ignored.
deleteTexture(gl, texture) ==
    [gl EXCEPT !.live = @ \ {texture},
               !.bound = [u \in DOMAIN @ |-> IF @[u] = texture THEN 0 ELSE @[u]]]

\* createColorTexture(gl): the texture it creates is kept in a local variable.
createColorTexture(gl) ==
    LET ctexture == CreatedTexture(gl)
        gl1 == createTexture(gl)
        gl2 == activeTexture(gl1, 2)
        gl3 == bindTexture(gl2, ctexture)
    IN  activeTexture(gl3, 1)

\* chunk.copyToGPU(gl), called for a chunk that is not in GPU memory.  The units
\* TEXTURE0 and TEXTURE0 + 1 are units 1 and 2 here.
copyToGPU(c) ==
    /\ ~gpuChunk[c].onGPU
    /\ gpuChunk[c].copies < MaxCopies
    /\ LET texture == CreatedTexture(glContext)
           gl1 == createTexture(glContext)
           gl2 == bindTexture(gl1, texture)
           ctexture == CreatedTexture(gl2)
           gl3 == createColorTexture(gl2)
           gl4 == bindTexture(gl3, 0)
       IN  /\ glContext' = gl4
           /\ gpuChunk' = [gpuChunk EXCEPT ![c] =
                 [onGPU |-> TRUE, texture |-> texture, textureLayout |-> TRUE,
                  copies |-> @.copies + 1,
                  created |-> @.created \cup {texture, ctexture}]]
    /\ UNCHANGED <<fetchVars, chunkVars, sourceVars, serverInfoVars, metadataVars, meshVars, downloadVars, rasterVars, sourceUrlVars, layerVars, repositoryVars, annotationVars, relationshipVars>>

\* chunk.freeGPUMemory(gl), called for a chunk that is in GPU memory.
freeGPUMemory(c) ==
    /\ gpuChunk[c].onGPU
    /\ glContext' = deleteTexture(glContext, gpuChunk[c].texture)
    /\ gpuChunk' = [gpuChunk EXCEPT ![c] =
          [@ EXCEPT !.onGPU = FALSE, !.texture = 0, !.textureLayout = FALSE]]
    /\ UNCHANGED <<fetchVars, chunkVars, sourceVars, serverInfoVars, metadataVars, meshVars, downloadVars, rasterVars, sourceUrlVars, layerVars, repositoryVars, annotationVars, relationshipVars>>

InitGpu ==
    /\ glContext = [count |-> 0, live |-> {}, active |-> 1, bound |-> <<0, 0>>]
    /\ gpuChunk = [c \in GpuChunks |->
                      [onGPU |-> FALSE, texture |-> 0, textureLayout |-> FALSE,
                       copies |-> 0, created |-> {}]]

NextGpu ==
    \/ \E c \in GpuChunks : copyToGPU(c)
    \/ \E c \in GpuChunks : freeGPUMemory(c)

(***************************************************************************)
(* Annotation relationships (annotation/annotation_layer_state.ts,          *)
(* WatchableAnnotationRelationshipStates): one relationship of the map, the *)
(* segmentation layers it can be attached to and the map's changed signal.  *)
(***************************************************************************)
SegmentationLayers == {"A", "B"}

\* The values of segmentationState: undefined (no attached layer), null
\* (loading) or the display state of a layer.
SegmentationStates == {"undefined", "null"} \cup SegmentationLayers

\* segmentationState == null.
IsNullish(state) == state \in {"undefined", "null"}

\* The listener that dispatches on every change of the set.
visibleSegmentsListener_everyChange(recorded, size) ==
    [wasEmpty |-> size = 0, dispatch |-> TRUE]

\* The listener registered on visibleSegments.changed: recorded is its wasEmpty,
\* size the size of the set when it runs.  It gives the new wasEmpty and
\* whether this.changed.dispatch() is called.
visibleSegmentsListener(recorded, size) ==
    LET isEmpty == size = 0
    IN  IF isEmpty # recorded
          THEN [wasEmpty |-> isEmpty, dispatch |-> TRUE]
          ELSE [wasEmpty |-> recorded, dispatch |-> FALSE]

\* segmentationState.value = state: the map's changed signal is dispatched, the
\* nested context of the old value is disposed with its listener, and for a
\* display state the emptiness of its set is recorded and a listener registered.
SetSegmentationState(state) ==
    /\ changedCount < MaxMessages
    /\ state # relationship.segmentationState
    /\ relationship' = [relationship EXCEPT
          !.segmentationState = state,
          !.wasEmpty = IF IsNullish(state) THEN @ ELSE visibleSegments[state] = {}]
    /\ changedCount' = changedCount + 1
    /\ emptyAtDispatch' = IF IsNullish(state) THEN emptyAtDispatch
                          ELSE visibleSegments[state] = {}
    /\ UNCHANGED <<visibleSegments, setChanges>>
    /\ UNCHANGED <<fetchVars, chunkVars, sourceVars, serverInfoVars, metadataVars, meshVars, downloadVars, rasterVars, sourceUrlVars, layerVars, repositoryVars, annotationVars, gpuVars>>

\* showMatches.value changes: the map's changed signal is dispatched.
ToggleShowMatches ==
    /\ changedCount < MaxMessages
    /\ relationship' = [relationship EXCEPT !.showMatches = ~@]
    /\ changedCount' = changedCount + 1
    /\ UNCHANGED <<visibleSegments, setChanges, emptyAtDispatch>>
    /\ UNCHANGED <<fetchVars, chunkVars, sourceVars, serverInfoVars, metadataVars, meshVars, downloadVars, rasterVars, sourceUrlVars, layerVars, repositoryVars, annotationVars, gpuVars>>

\* The set of visible segments of a layer changes to segments and dispatches its
\* changed signal; the listener runs if the relationship is attached to the layer.
ChangeVisibleSegments(l, segments) ==
    /\ setChanges < MaxMessages
    /\ segments # visibleSegments[l]
    /\ visibleSegments' = [visibleSegments EXCEPT ![l] = segments]
    /\ setChanges' = setChanges + 1
    /\ IF relationship.segmentationState = l
         THEN LET run == visibleSegmentsListener(relationship.wasEmpty, Cardinality(segments))
              IN  /\ relationship' = [relationship EXCEPT !.wasEmpty = run.wasEmpty]
                  /\ changedCount' = IF run.dispatch THEN changedCount + 1 ELSE changedCount
                  /\ emptyAtDispatch' = IF run.dispatch THEN segments = {} ELSE emptyAtDispatch
         ELSE UNCHANGED <<relationship, changedCount, emptyAtDispatch>>
    /\ UNCHANGED <<fetchVars, chunkVars, sourceVars, serverInfoVars, metadataVars, meshVars, downloadVars, rasterVars, sourceUrlVars, layerVars, repositoryVars, annotationVars, gpuVars>>

\* relationshipStates.get(name) creates the relationship: no attached layer,
\* showMatches false.
InitRelationship ==
    /\ relationship = [segmentationState |-> "undefined", showMatches |-> FALSE,
                       wasEmpty |-> TRUE]
    /\ visibleSegments = [l \in SegmentationLayers |-> {}]
    /\ changedCount = 0
    /\ setChanges = 0
    /\ emptyAtDispatch = TRUE

NextRelationship ==
    \/ \E state \in SegmentationStates : SetSegmentationState(state)
    \/ ToggleShowMatches
    \/ \E l \in SegmentationLayers, segments \in SUBSET Segments :
          ChangeVisibleSegments(l, segments)

Init ==
    /\ InitFetch /\ InitChunks /\ InitSources /\ InitServerInfo /\ InitMetadata /\ InitMesh
    /\ InitDownload /\ InitRaster /\ InitSourceUrl /\ InitLayer /\ InitRepositories /\ InitAnnotation /\ InitGpu /\ InitRelationship

SpecFetch == Init /\ [][NextFetch]_vars

SpecChunks == Init /\ [][NextChunks]_vars

SpecSources == Init /\ [][NextSources]_vars

SpecServerInfo == Init /\ [][NextServerInfo]_vars

SpecMetadata == Init /\ [][NextMetadata]_vars

SpecMesh == Init /\ [][NextMesh]_vars

SpecDownload == Init /\ [][NextDownload]_vars

SpecRaster == Init /\ [][NextRaster]_vars

SpecSourceUrl == Init /\ [][NextSourceUrl]_vars

SpecLayer == Init /\ [][NextLayer]_vars

SpecRepositories == Init /\ [][NextRepositories]_vars

SpecAnnotation == Init /\ [][NextAnnotation]_vars

SpecGpu == Init /\ [][NextGpu]_vars

SpecRelationship == Init /\ [][NextRelationship]_vars

(***************************************************************************)
(* Claims about the credentialed fetch.                                    *)
(***************************************************************************)
AuthStatuses == {401, 403}

\* C1: the last answer a request received decides what the request did next.
\* After 401/403 the request has asked the provider for a refresh, and an attempt
\* in flight after it carries a newer token than the one that failed; after 504
\* the attempt in flight carries the same token as the one that timed out (or the
\* retries are used up); after any other error the request has failed and no
\* further attempt was sent; after 200 it is done.
C1_StatusClassification ==
    \A r \in Requests :
        LET q == request[r]
        IN  q.responses > 0 =>
              /\ q.status \in AuthStatuses =>
                    /\ q.refreshRequests = 1
                    /\ refreshIssued[q.authFailToken] = 1
                    /\ q.pc \in {"wait", "sent", "failed"}
                    /\ q.pc = "sent" =>
                          q.token > q.prevToken /\ q.attempts = q.responses + 1
                    /\ q.pc = "failed" => q.attempts = q.responses
              /\ q.status = 504 =>
                    \/ /\ q.pc = "sent"
                       /\ q.token = q.prevToken
                       /\ q.attempts = q.responses + 1
                    \/ /\ q.pc = "failed"
                       /\ q.retries = MaxTransientRetries
                       /\ q.attempts = q.responses
              /\ q.status \notin (AuthStatuses \cup {200, 504}) =>
                    q.pc = "failed" /\ q.attempts = q.responses
              /\ q.status = 200 => q.pc = "done"

\* One request was retried after a 504 and then re-sent with a refreshed token
\* after a 401, while another failed on an error of another kind.
C1_Witness ==
    \E r1, r2 \in Requests :
        /\ request[r1].retries >= 1
        /\ request[r1].status = 401
        /\ request[r1].pc = "sent"
        /\ request[r1].token > request[r1].prevToken
        /\ request[r2].status = 500
        /\ request[r2].pc = "failed"

\* C2: a request asks for at most one refresh; its second authorization failure
\* is terminal: the request has failed, nothing more was sent, and no second
\* refresh was asked for.
C2_SingleRefreshRetry ==
    \A r \in Requests :
        LET q == request[r]
        IN  /\ q.refreshRequests <= 1
            /\ q.authFailures <= 2
            /\ q.authFailures = 2 =>
                  /\ q.pc = "failed"
                  /\ q.attempts = q.responses
                  /\ q.refreshRequests = 1

\* A request failed on the token it was given by the refresh.
C2_Witness ==
    \E r \in Requests :
        /\ request[r].authFailures = 2
        /\ request[r].resumeToken > request[r].authFailToken
        /\ request[r].prevToken = request[r].resumeToken
        /\ request[r].pc = "failed"

\* C3: a request answered 504 on every attempt keeps its first token, is sent
\* again while retries remain, and has failed once MaxTransientRetries retries
\* were answered 504 too; no request is retried more than MaxTransientRetries times.
C3_BoundedTransientRetry ==
    \A r \in Requests :
        LET q == request[r]
        IN  /\ q.retries <= MaxTransientRetries
            /\ (q.all504 /\ q.responses > 0) =>
                  /\ q.token = q.firstToken
                  /\ q.retries = IF q.pc = "sent" THEN q.responses ELSE q.responses - 1
                  /\ q.responses <= MaxTransientRetries => q.pc = "sent"
                  /\ q.responses = MaxTransientRetries + 1 => q.pc = "failed"
                  /\ q.responses <= MaxTransientRetries + 1

\* A request was answered 504 until its retries ran out.
C3_Witness ==
    \E r \in Requests :
        /\ request[r].all504
        /\ request[r].responses = MaxTransientRetries + 1
        /\ request[r].pc = "failed"

\* The generations on which some request had its first authorization failure.
FailedGenerations == {request[r].authFailToken : r \in Requests} \ {0}

RECURSIVE SumIssued(_)
SumIssued(gs) ==
    IF gs = {} THEN 0
    ELSE LET g == CHOOSE x \in gs : TRUE
         IN  refreshIssued[g] + SumIssued(gs \ {g})

\* C4: for the requests whose token of generation g was refused, exactly one
\* refresh replacing g is issued, and no refresh is issued for anything else;
\* while it is pending they all wait, if it fails they all fail without another
\* attempt, and if it succeeds they are all sent again with generation g + 1
\* (for a request answered after the refresh ended: as long as no later refresh
\* has replaced g + 1).
C4_SingleFlightRefresh ==
    /\ \A g \in Generations : refreshIssued[g] <= 1
    /\ SumIssued(Generations) = Cardinality(FailedGenerations)
    /\ \A r \in Requests :
          LET q == request[r]
              g == q.authFailToken
          IN  g # 0 =>
                /\ refreshIssued[g] = 1
                /\ refreshResult[g] = "pending" => q.pc = "wait" /\ q.awaited = g
                /\ refreshResult[g] = "failed" =>
                      q.pc = "failed" /\ q.resumeToken = 0 /\ q.attempts = q.responses
                /\ (refreshResult[g] = "ok" /\ (q.awaited = g \/ refreshIssued[g + 1] = 0)) =>
                      q.resumeToken = g + 1

\* Every request was refused on the first token, and all of them were sent again
\* with the token of the one refresh.
C4_Witness ==
    /\ \A r \in Requests :
          /\ request[r].authFailToken = 1
          /\ request[r].resumeToken = 2
          /\ request[r].awaited = 1
    /\ refreshIssued[1] = 1

\* Every request was refused on the first token, and all of them failed with
\* the one refresh.
C4_WitnessAllFail ==
    /\ \A r \in Requests :
          /\ request[r].authFailToken = 1
          /\ request[r].awaited = 1
          /\ request[r].pc = "failed"
    /\ refreshResult[1] = "failed"

(***************************************************************************)
(* Claims about the chunk manager.                                         *)
(***************************************************************************)
\* C5: at most one resident or in-flight (queued or fetching) entry exists per
\* chunk key, and a requestChunks call leaves the entries of the keys it found
\* resident or in flight in the state they were in.
C5_OneEntryPerKey ==
    /\ \A e, f \in chunks : (e.key = f.key /\ Live(e) /\ Live(f)) => e = f
    /\ \A k \in reprioritized :
          \E e \in chunks : e.key = k /\ Live(e) /\ e.epoch = epoch

\* A request has just named a resident chunk and a chunk being fetched.
C5_Witness ==
    /\ \E e \in Resident : e.key \in reprioritized
    /\ \E e \in InFlight : e.key \in reprioritized

\* C6: the entry whose fetch has just started had, among the entries pending with
\* it, the highest priority, and among those of its priority the latest request.
C6_DispatchOrder ==
    \A d \in dispatched :
        \A f \in Pending :
            \/ f.priority < d.priority
            \/ f.priority = d.priority /\ f.epoch <= d.epoch

\* A fetch has just started while a chunk of lower priority and an older chunk
\* of the same priority stay pending.
C6_Witness ==
    \E d \in dispatched :
        /\ \E f \in Pending : f.priority < d.priority
        /\ \E f \in Pending : f.priority = d.priority /\ f.epoch < d.epoch

\* C7: when an eviction pass has completed, the resident chunks fit the budget,
\* unless the chunks the current epoch needs exceed it on their own.
C7_BudgetAfterPass ==
    passDone =>
        \/ TotalSize(Resident) <= Budget
        \/ TotalSize({e \in Resident : Needed(e)}) > Budget

\* A pass has evicted two chunks to reach the budget.
C7_Witness ==
    /\ passDone
    /\ Cardinality(evicted) >= 2
    /\ Resident # {}
    /\ TotalSize(Resident) <= Budget

\* A pass has completed over budget: what the current epoch needs exceeds it.
C7_WitnessBestEffort ==
    /\ passDone
    /\ evicted # {}
    /\ TotalSize(Resident) > Budget

\* C8: the fetches in flight of one chunk source never exceed PerSourceCap and
\* the fetches in flight never exceed GlobalCap.
C8_ConcurrencyCaps ==
    /\ \A k \in ChunkKeys :
          Cardinality({f \in InFlight : f.key[1] = k[1]}) <= PerSourceCap
    /\ Cardinality(InFlight) <= GlobalCap

\* The global cap is reached; one chunk waits for its source, another waits for
\* the global cap alone.
C8_Witness ==
    /\ Cardinality(InFlight) = GlobalCap
    /\ \E e \in Pending : \E f \in InFlight : f.key[1] = e.key[1]
    /\ \E e \in Pending : \A f \in InFlight : f.key[1] # e.key[1]

\* The resident entries R with the priority of every stale entry replaced by p.
Scrub(R, p) == {IF Stale(e) THEN [e EXCEPT !.priority = p] ELSE e : e \in R}

KeysOf(R) == {e.key : e \in R}

\* C9: a pass that has evicted a chunk with a priority of the current epoch has
\* left no stale chunk resident, and the chunks a pass retains do not depend on
\* the priority values of stale entries.
C9_StaleEvictedFirst ==
    /\ passDone =>
          \A v \in evicted : v.epoch = epoch => \A e \in Resident : e.epoch = epoch
    /\ TotalSize(Resident) > Budget =>
          \A p \in Priorities :
             KeysOf(Retained(Scrub(Resident, p))) = KeysOf(Retained(Resident))

\* A pass has evicted a stale chunk of high priority and has retained a chunk of
\* the current epoch of lower priority.
C9_Witness ==
    /\ passDone
    /\ \E v \in evicted : \E e \in Resident :
          e.epoch = epoch /\ v.epoch # epoch /\ e.priority < v.priority

(***************************************************************************)
(* Claims about the multiscale source.                                     *)
(***************************************************************************)
\* The level of alternative alt is n and its resolution is the base resolution
\* times 2^n on axis i.
AtDyadicLevel(alt, n, i) ==
    alt.level = n /\ alt.voxelSize[i] = instance.voxelSize[i] * Pow2(n)

\* C10: for every level n returned by getSources whose resolution is R0 * 2^n,
\* and every axis, lowerVoxelBound is the floor of lowerBound_0 / 2^n and
\* upperVoxelBound is the ceiling of upperBound_0 / 2^n; base bounds [0, 100)
\* at level 1 give [0, 50).
C10_RescaledBounds ==
    \A j \in DOMAIN sources : \A a \in DOMAIN sources[j] :
        LET alt == sources[j][a]
        IN  \A i \in Axes : \A n \in 0 .. (MaxLevel + 1) :
                AtDyadicLevel(alt, n, i) =>
                    /\ alt.lowerVoxelBound[i] * Pow2(n) <= instance.lowerVoxelBound[i]
                    /\ instance.lowerVoxelBound[i] < (alt.lowerVoxelBound[i] + 1) * Pow2(n)
                    /\ (alt.upperVoxelBound[i] - 1) * Pow2(n) < instance.upperVoxelBound[i]
                    /\ instance.upperVoxelBound[i] <= alt.upperVoxelBound[i] * Pow2(n)
                    /\ (n = 1 /\ instance.lowerVoxelBound[i] = 0
                              /\ instance.upperVoxelBound[i] = 100) =>
                          alt.lowerVoxelBound[i] = 0 /\ alt.upperVoxelBound[i] = 50

\* getSources has returned the levels 0 .. 4 of a volume with a negative odd
\* lower bound and an odd upper bound: level 4 holds floor(-7/16) and ceil(5/16),
\* level 1 holds [0, 50) on the axis with base bounds [0, 100).
C10_Witness ==
    /\ instance.kind = "volume"
    /\ Len(sources) = 5
    /\ instance.lowerVoxelBound = <<-7, 0, 3>>
    /\ instance.upperVoxelBound = <<5, 100, 5>>
    /\ sources[5][1].lowerVoxelBound = <<-1, 0, 0>>
    /\ sources[5][1].upperVoxelBound = <<1, 7, 1>>
    /\ sources[2][1].lowerVoxelBound[2] = 0
    /\ sources[2][1].upperVoxelBound[2] = 50

\* getSources has returned a tile level 1 of doubled resolution with a negative
\* odd lower bound.
C10_WitnessTile ==
    /\ instance.kind = "tile"
    /\ Len(sources) = 2
    /\ sources[2][1].level = 1
    /\ AtDyadicLevel(sources[2][1], 1, 1)
    /\ instance.lowerVoxelBound[3] = -3
    /\ sources[2][1].lowerVoxelBound[3] = -2

(***************************************************************************)
(* Claims about the server info cache.                                     *)
(***************************************************************************)
\* The callers that have called getServerInfo with the list baseUrls.
CallersOf(baseUrls) ==
    {c \in Callers : received[c].promise # 0 /\ received[c].baseUrls = baseUrls}

\* C11: whatever the interleaving of getServerInfo calls with one base-URL list,
\* exactly one '/api/repos/info' request is sent for it and its response is
\* parsed at most once; every caller, one arriving while the request is in
\* flight included, receives the same promise and so the same ServerInfo.
C11_OneServerInfoRequest ==
    \A baseUrls \in BaseUrlLists :
        LET sent == {i \in DOMAIN httpLog : httpLog[i].baseUrls = baseUrls}
            made == {p \in DOMAIN promises : promises[p].baseUrls = baseUrls}
        IN  /\ Cardinality(sent) = (IF CallersOf(baseUrls) = {} THEN 0 ELSE 1)
            /\ Cardinality(made) = Cardinality(sent)
            /\ \A p \in made : promises[p].parses <= 1
            /\ \A p \in made : promises[p].state = "fulfilled" => promises[p].parses = 1
            /\ \A c, d \in CallersOf(baseUrls) :
                  /\ received[c].promise = received[d].promise
                  /\ promises[received[c].promise].value = promises[received[d].promise].value
                  /\ received[c].promise \in made

\* Three callers passed the same list, one of them while the request was in
\* flight and one after it had been answered and parsed.
C11_Witness ==
    \E c, d, e \in Callers :
        /\ c # d /\ d # e /\ c # e
        /\ received[c].promise # 0
        /\ received[d].baseUrls = received[c].baseUrls
        /\ received[e].baseUrls = received[c].baseUrls
        /\ received[d].promise # 0 /\ received[d].inFlight
        /\ received[e].promise # 0 /\ ~received[e].inFlight /\ received[e].promise = received[d].promise
        /\ promises[received[c].promise].state = "fulfilled"

(***************************************************************************)
(* Claims about metadata parsing.                                          *)
(***************************************************************************)
\* The data instance object is one parseDataInstance accepts.
Parseable(obj) ==
    /\ obj.Base \in {"uint8blk", "grayscale8", "imagetile", "labels64", "labelblk"}
    /\ obj.Extended = "valid"

\* The positions of the messages of errors that name the key.
ErrorsNaming(errors, key) == {i \in DOMAIN errors : errors[i][2] = key}

\* The repository object has the properties other than DataInstances the constructor verifies.
WellFormedRepository(obj) ==
    ~obj.undefined /\ obj.Alias.isString /\ obj.Description.isString /\ obj.DAG.ok

\* C12: when RepositoryInfo parses the DataInstances of a repository, an
\* instance whose parse throws is left out of dataInstances and exactly one
\* message naming its key is appended to errors; every other instance is parsed
\* and the repository is constructed.
C12_FailedInstanceSkipped ==
    (metadata.kind = "repository" /\ WellFormedRepository(metadata.obj)) =>
        /\ parsed.ok
        /\ \A i \in DOMAIN metadata.obj.DataInstances :
              LET entry == metadata.obj.DataInstances[i]
                  set == {j \in DOMAIN parsed.info.dataInstances :
                             parsed.info.dataInstances[j].key = entry.key}
                  named == ErrorsNaming(parsed.info.errors, entry.key)
              IN  IF Parseable(entry.obj)
                    THEN Cardinality(set) = 1 /\ named = {}
                    ELSE set = {} /\ Cardinality(named) = 1
        /\ Len(parsed.info.dataInstances) + Len(parsed.info.errors)
              = Len(metadata.obj.DataInstances)

\* A repository whose first instance has an unsupported type name and whose
\* second instance parses has been constructed.
C12_Witness ==
    /\ metadata.kind = "repository"
    /\ WellFormedRepository(metadata.obj)
    /\ Len(metadata.obj.DataInstances) = 2
    /\ metadata.obj.DataInstances[1].obj.Base = "keyvalue"
    /\ Parseable(metadata.obj.DataInstances[2].obj)
    /\ parsed.ok
    /\ Len(parsed.info.errors) = 1
    /\ Len(parsed.info.dataInstances) = 1

\* C13: parseMultiscaleVolumeInfo fails and returns no volume info when the
\* 'scales' list is empty or when a scale has an empty 'chunk_sizes' list.
C13_EmptyScalesRejected ==
    (/\ metadata.kind = "volume info"
     /\ \/ metadata.obj.scales = <<>>
        \/ \E i \in DOMAIN metadata.obj.scales : metadata.obj.scales[i].chunk_sizes = <<>>)
    => (~parsed.ok /\ DOMAIN parsed = {"ok", "message"})

\* An info whose second scale has no chunk sizes, and which is well formed
\* otherwise, has been rejected with the error of that check.
C13_Witness ==
    /\ metadata.kind = "volume info"
    /\ metadata.obj.data_type /\ metadata.obj.type /\ metadata.obj.num_channels = 1
    /\ Len(metadata.obj.scales) = 2
    /\ metadata.obj.scales[1].chunk_sizes # <<>>
    /\ metadata.obj.scales[2] = [resolution |-> TRUE, size |-> TRUE,
                                 chunk_sizes |-> <<>>, key |-> "8_8_8"]
    /\ ~parsed.ok
    /\ parsed.message = <<"No chunk sizes specified.">>

\* An info without scales, well formed otherwise, has been rejected.
C13_WitnessNoScales ==
    /\ metadata.kind = "volume info"
    /\ metadata.obj.data_type /\ metadata.obj.type /\ metadata.obj.num_channels = 1
    /\ metadata.obj.scales = <<>>
    /\ parsed = Throw(<<"Expected at least one scale">>)

(***************************************************************************)
(* Claims about the credential header.                                     *)
(***************************************************************************)
\* The scheme of the URL, the characters before the first ':', is https.
Secure(input) ==
    /\ Len(input) > 5
    /\ input[6] = ":"
    /\ SubSeq(input, 1, 5) = <<"h", "t", "t", "p", "s">>
    /\ \A i \in 1 .. 5 : input[i] # ":"

\* C14: the headers of every attempt of a credentialed request, the first and
\* every retry, hold 'Authorization: Bearer <token>' and
\* 'Access-Control-Allow-Origin: *' if the URL is https, and hold no token
\* at all if it is not.
C14_BearerOnlyOverHttps ==
    \A r \in Requests :
        request[r].attempts > 0 =>
            IF Secure(request[r].input)
              THEN /\ <<"Authorization", <<"Bearer", request[r].token>>>> \in request[r].headers
                   /\ <<"Access-Control-Allow-Origin", "*">> \in request[r].headers
              ELSE \A h \in request[r].headers :
                      /\ h[1] \notin {"Authorization", "Access-Control-Allow-Origin"}
                      /\ \A g \in Generations : h[2] # <<"Bearer", g>>

\* An http request and an https request have both been sent again with a
\* refreshed token after an authorization failure.
C14_Witness ==
    \E r, q \in Requests :
        /\ ~Secure(request[r].input)
        /\ request[r].refreshRequests = 1 /\ request[r].attempts >= 2
        /\ request[r].token # request[r].firstToken
        /\ request[r].headers = {}
        /\ Secure(request[q].input)
        /\ request[q].refreshRequests = 1 /\ request[q].attempts >= 2
        /\ request[q].token # request[q].firstToken
        /\ <<"Authorization", <<"Bearer", request[q].token>>>> \in request[q].headers

(***************************************************************************)
(* Claims about the mesh source.                                           *)
(***************************************************************************)
\* The number of requests of the path in the log.
Fetches(path) == Cardinality({i \in DOMAIN meshLog : meshLog[i] = path})

\* The fragments the manifest lists.
Listed == {manifest.fragments[i] : i \in DOMAIN manifest.fragments}

\* C15 in every state: the manifest is fetched exactly once when the object is
\* requested; a fragment is fetched at most once, only if the resident manifest
\* lists it, and exactly once when its fetch has been started; the log holds
\* nothing else.
C15_MeshFetchCounts ==
    /\ Fetches(ManifestPath(MeshParameters, manifest.objectId))
          = (IF manifest.state \in {"absent", "queued"} THEN 0 ELSE 1)
    /\ \A f \in FragmentIds :
          /\ Fetches(FragmentPath(MeshParameters, f))
                = (IF fragment[f] \in {"fetching", "resident", "failed", "cancelled in flight"}
                     THEN 1 ELSE 0)
          /\ Fetches(FragmentPath(MeshParameters, f)) > 0 =>
                manifest.state = "resident" /\ f \in Listed
    /\ (\A f \in Listed : fragment[f] = "resident") =>
          Len(meshLog) = (IF manifest.state = "resident" THEN 1 + Len(manifest.fragments)
                          ELSE IF manifest.state \in {"absent", "queued"} THEN 0 ELSE 1)

\* C15 in every step: a step that cancels the fetch of one fragment leaves the
\* manifest, the other fragments and the requests made as they are.
C15_CancelIndependent ==
    \A f \in FragmentIds :
        (fragment[f] \in {"queued", "fetching"}
         /\ fragment'[f] \in {"cancelled", "cancelled in flight"}) =>
            /\ \A g \in FragmentIds \ {f} : fragment'[g] = fragment[g]
            /\ manifest' = manifest
            /\ meshLog' = meshLog

C16_CancellationPropagated ==
    download.cancelledInFlight =>
        download.xhr = "aborted" /\ download.promise = "rejected"

\* The same for the variants whose download takes the cancellation token.
C16_TokenVariantsAbort ==
    (download.cancelledInFlight /\ PassesCancellationToken(download.variant)) =>
        download.xhr = "aborted" /\ download.promise = "rejected"

\* A skeleton chunk was cancelled in flight and its request is still open.
C16_Witness ==
    /\ download.variant = "dvid/SkeletonSource"
    /\ download.cancelledInFlight
    /\ download.xhr = "open"
    /\ download.promise = "pending"

\* C17 in every state: a cancelled chunk is in the cancelled state, which is
\* not the failed state, and is not in flight.
C17_CancelledState ==
    download.cancelled =>
        /\ download.state = "cancelled"
        /\ download.state # "failed"
        /\ ~download.inFlight

\* C17 in every step: cancelling reports no error and re-enqueues nothing, and
\* whatever happens to a cancelled chunk's request afterwards, the chunk stays
\* cancelled, no error is reported for it and it is not fetched again.
C17_CancelledStays ==
    download'.cancelled =>
        /\ download'.state = "cancelled"
        /\ download'.reported = download.reported
        /\ download'.retries = download.retries
        /\ download'.attempts = download.attempts

\* C17: a cancelled chunk fetch ends in a cancelled state distinct from the
\* failed state: it leaves the in-flight bookkeeping, is never reported as an
\* error and is never re-enqueued by the retry policy.
C17_CancelledNotFailed == []C17_CancelledState /\ [][C17_CancelledStays]_vars

\* A chunk was cancelled in flight, its request went on and was answered 404
\* afterwards: the chunk is cancelled and nothing was reported.
C17_Witness ==
    /\ download.cancelledInFlight
    /\ download.xhr = "done"
    /\ download.status = 404
    /\ download.promise = "rejected"
    /\ download.state = "cancelled"
    /\ download.reported = 0

\* The download settled with a failure that is not transient.
TerminalFailure(d) == d.status = 404 \/ (d.status = 200 /\ ~d.decoded)

\* C18 in every state: a chunk that failed in the current epoch is in the
\* failed state, reported, with no request open.
C18_FailedState ==
    download.failedEpoch = downloadEpoch =>
        /\ download.state = "failed"
        /\ download.reported >= 1
        /\ download.xhr # "open"

\* C18 in every step: a download that settles with a permanent failure or a
\* decode error marks the chunk failed and reports it; a failed chunk is left
\* alone as long as the epoch is the same; and the retry policy puts back in the
\* queue only a chunk whose download settled with the transient failure.
C18_FailedStays ==
    /\ (download.state = "fetching" /\ download'.xhr = "done" /\ TerminalFailure(download')) =>
          /\ download'.state = "failed"
          /\ download'.reported = download.reported + 1
          /\ download'.failedEpoch = downloadEpoch
    /\ (download.state = "failed" /\ downloadEpoch' = downloadEpoch) => download' = download
    /\ (download.state = "fetching" /\ download'.state = "queued") =>
          /\ download'.status = 504
          /\ download'.retries = download.retries + 1

\* C18: a chunk whose fetch fails permanently, or whose payload fails to decode,
\* moves to a terminal failed state and is not fetched again automatically in
\* the same epoch; only retryable failures are re-enqueued.
C18_TerminalFailure == []C18_FailedState /\ [][C18_FailedStays]_vars

\* A chunk was put back in the queue after a gateway timeout and its second
\* download failed to decode: it is failed, reported once, fetched twice.
C18_Witness ==
    /\ download.state = "failed"
    /\ download.status = 200 /\ ~download.decoded
    /\ download.retries = 1
    /\ download.attempts = 2
    /\ download.reported = 1
    /\ download.failedEpoch = downloadEpoch

\* A chunk that failed in an earlier epoch has been requested afresh and is resident.
C18_WitnessNextEpoch ==
    /\ download.failedEpoch # 0
    /\ download.failedEpoch < downloadEpoch
    /\ download.state = "resident"

(***************************************************************************)
(* Claims about the order of the list getSources returns.                  *)
(***************************************************************************)

\* b is coarser than a: its resolution is greater along every axis.
Coarser(a, b) == \A i \in Axes : a[i] < b[i]

\* C19: the outer list getSources returns is ordered by resolution: of two
\* positions of the list, the later one holds the coarser resolution, for a
\* volume instance and for a tile instance alike.
C19_ResolutionIncreasing ==
    \A j \in DOMAIN sources : \A k \in DOMAIN sources :
        j < k => \A a \in DOMAIN sources[j] : \A b \in DOMAIN sources[k] :
                    Coarser(sources[j][a].voxelSize, sources[k][b].voxelSize)

\* getSources has returned two tile levels, level 0 and then level 1.
C19_Witness ==
    /\ instance.kind = "tile"
    /\ Len(sources) = 2
    /\ sources[1][1].level = 0
    /\ sources[2][1].level = 1

\* For a volume instance the list is ordered by resolution.
C19_VolumeIncreasing == instance.kind = "volume" => C19_ResolutionIncreasing

\* For a tile instance the list is ordered by level key, whatever order the
\* metadata lists the levels in.
C19_TileByLevelKey ==
    instance.kind = "tile" =>
        \A j \in DOMAIN sources : \A k \in DOMAIN sources :
            j < k => sources[j][1].level < sources[k][1].level

\* For a tile instance whose levels are listed with resolutions that grow with
\* the level key, the list is ordered by resolution.
C19_TileIncreasingWhenLevelsAre ==
    (/\ instance.kind = "tile"
     /\ \A j \in DOMAIN instance.levels : \A k \in DOMAIN instance.levels :
            instance.levels[j].level < instance.levels[k].level
                => Coarser(instance.levels[j].resolution, instance.levels[k].resolution))
        => C19_ResolutionIncreasing

(***************************************************************************)
(* Claims about the path of a raster chunk.                                *)
(***************************************************************************)

\* The coordinates a path can name.
Coordinates == -256 .. 512

\* The number a piece of a path writes out.
ParseCoordinate(piece) == CHOOSE n \in Coordinates : ToString(n) = piece

\* The request is for prefix/x0-x1_y0-y1_z0-z1, where x0, y0, z0 is the position
\* of the chunk and x1 - x0, y1 - y0, z1 - z0 its data size.
RasterRange(r) ==
    /\ Len(r.path) = 13
    /\ r.path[1] = r.parameters.path
    /\ r.path[2] = "/"
    /\ r.path[6] = "_"
    /\ r.path[10] = "_"
    /\ \A i \in Axes :
          /\ r.path[4 * i] = "-"
          /\ ParseCoordinate(r.path[4 * i - 1]) = r.chunk.chunkPosition[i]
          /\ ParseCoordinate(r.path[4 * i + 1]) - ParseCoordinate(r.path[4 * i - 1])
                = r.chunk.chunkDataSize[i]

\* C20: every request of the raster volume source is for the path
\* prefix/x-(x+sx)_y-(y+sy)_z-(z+sz) of its chunk, each upper coordinate the
\* lower one plus the chunk size, and two requests for the same chunk position
\* and size with the same parameters are for the same path.
C20_RasterPath ==
    /\ \A n \in DOMAIN rasterLog : RasterRange(rasterLog[n])
    /\ \A m \in DOMAIN rasterLog : \A n \in DOMAIN rasterLog :
          (/\ rasterLog[m].chunk = rasterLog[n].chunk
           /\ rasterLog[m].parameters = rasterLog[n].parameters)
              => rasterLog[m].path = rasterLog[n].path

\* A chunk at a negative position with a non-cubic size has been requested, and
\* then the same chunk again.
C20_Witness ==
    /\ Len(rasterLog) = 2
    /\ rasterLog[1].chunk = [chunkPosition |-> <<-64, 64, 0>>, chunkDataSize |-> <<32, 32, 16>>]
    /\ rasterLog[2].chunk = rasterLog[1].chunk
    /\ rasterLog[1].path[1] = "seg/8_8_8"
    /\ rasterLog[1].path[3] = "-64"
    /\ rasterLog[1].path[5] = "-32"
    /\ rasterLog[1].path[13] = "16"

(***************************************************************************)
(* Claims about the parameters of a source URL.                            *)
(***************************************************************************)

\* The value the URL gives for key, if it gives one that is not empty.
Given(url, key) ==
    IF \E j \in DOMAIN url.parts : url.parts[j].key = key /\ url.parts[j].value # ""
      THEN Defined(url.parts[CHOOSE j \in DOMAIN url.parts : url.parts[j].key = key].value)
      ELSE Undefined

\* The resolution of token=, auth=, user= and kind= the claim describes.
AuthParametersResolved(url, p) ==
    /\ Given(url, "token").defined =>
          /\ p.authToken = Given(url, "token")
          /\ p.authServer = Defined("token:" \o Given(url, "token").value)
    /\ ~Given(url, "token").defined => p.authServer = Given(url, "auth")
    /\ Given(url, "user").defined => p.user = Given(url, "user")
    /\ (~Given(url, "user").defined /\ Given(url, "token").defined) =>
          p.user = getUserFromToken(Given(url, "token").value)
    /\ p.kind = IF ~Given(url, "kind").defined THEN Defined("Normal")
                ELSE IF Given(url, "kind").value = "atlas" THEN Defined("Atlas")
                ELSE Given(url, "kind")

\* C21: the parameters parseSourceUrl returns for a source URL resolve token=,
\* auth=, user= and kind= as described: the token before auth, an explicit user
\* before the token's user, and the kind 'Atlas' for 'atlas', the given kind
\* otherwise and 'Normal' when none is given.
C21_AuthParameters ==
    (urlResolved /\ sourceParameters.ok) =>
        AuthParametersResolved(sourceUrl, sourceParameters)

\* A URL with token, auth and kind=atlas and no user has been resolved.
C21_Witness ==
    /\ urlResolved /\ sourceParameters.ok
    /\ Given(sourceUrl, "token") = Defined("t1")
    /\ Given(sourceUrl, "auth").defined
    /\ ~Given(sourceUrl, "user").defined
    /\ sourceParameters.authServer = Defined("token:t1")
    /\ sourceParameters.user = Defined("alice")
    /\ sourceParameters.kind = Defined("Atlas")

\* For a URL with a query string of at least one parameter the parameters are
\* resolved as described.
C21_WithQueryString ==
    (urlResolved /\ sourceParameters.ok /\ QueryStringLongerThanOne(sourceUrl)) =>
        AuthParametersResolved(sourceUrl, sourceParameters)

(***************************************************************************)
(* Claims about the segmentation layer.                                    *)
(***************************************************************************)

\* C22: whenever the layer's visibility, visible segments or equivalences differ
\* from what the chunk priorities were computed from, an update of the
\* priorities is pending, and every fetch was dispatched by priorities computed
\* from the state the layer had at the dispatch: the re-evaluation comes after
\* the change and before the next dispatch.
C22_PriorityUpdateScheduled ==
    /\ priorityInputs # LayerState => updatePending
    /\ \A n \in DOMAIN fetchLog : fetchLog[n].priorityInputs = fetchLog[n].layer

\* A fetch has been dispatched after the layer became visible with a segment
\* shown and the two segments linked.
C22_Witness ==
    /\ Len(fetchLog) >= 1
    /\ fetchLog[Len(fetchLog)].layer.visible
    /\ fetchLog[Len(fetchLog)].layer.visibleSegments = {1}
    /\ fetchLog[Len(fetchLog)].layer.segmentEquivalences
    /\ scheduleCalls = 3

\* C27: a visibility message leaves the visible flag at the visibleReceived value and
\* schedules a priority update exactly when the value differs from the flag; a
\* message that repeats the flag changes nothing else.
C27_VisibilityMessage ==
    [][handled' = handled + 1 =>
          /\ layer'.visible = visibleReceived'
          /\ (scheduleCalls' = scheduleCalls + 1) <=> (visibleReceived' # layer.visible)
          /\ scheduleCalls' \in {scheduleCalls, scheduleCalls + 1}
          /\ visibleReceived' # layer.visible => updatePending'
          /\ visibleReceived' = layer.visible =>
                UNCHANGED <<layer, updatePending, priorityInputs, scheduleCalls, fetchLog>>
          /\ layer'.visibleSegments = layer.visibleSegments
          /\ layer'.segmentEquivalences = layer.segmentEquivalences]_vars

\* A message has repeated the value true after a message that set it, and the
\* update the first one scheduled has run.
C27_Witness ==
    /\ handled = 2
    /\ visibleReceived = TRUE
    /\ layer.visible
    /\ scheduleCalls = 1
    /\ ~updatePending

(***************************************************************************)
(* Claims about the repositories of a server.                              *)
(***************************************************************************)

\* The keys of the repositories that have nodeKey as a prefix.
MatchingKeys(nodeKey) ==
    {entry.key : entry \in {x \in repositories.entries : startsWith(x.key, nodeKey)}}

\* C23: a call of getNode that returns without throwing returns a defined
\* repository, the one of the single key that has nodeKey as a prefix.
C23_GetNodeDefined ==
    (nodeLookup.called /\ ~nodeLookup.threw) =>
        /\ nodeLookup.result.defined
        /\ MatchingKeys(nodeLookup.nodeKey) = {nodeLookup.result.info.uuid}

\* getNode has returned for the full key of a node other than the root.
C23_Witness ==
    /\ nodeLookup.called /\ ~nodeLookup.threw
    /\ nodeLookup.nodeKey = KeyAbd
    /\ nodeLookup.result.defined
    /\ nodeLookup.result.info.uuid = KeyAbd

\* A call of getNode with a full key that returns returns that key's repository.
C23_FullKeyDefined ==
    (nodeLookup.called /\ ~nodeLookup.threw /\ Len(nodeLookup.nodeKey) = 3) =>
        /\ nodeLookup.result.defined
        /\ nodeLookup.result.info.uuid = nodeLookup.nodeKey

\* The entry of the map under key.
EntryOf(key) == (CHOOSE entry \in repositories.entries : entry.key = key).info

CallsGetServerInfo(c, baseUrls) ==
    /\ received[c].promise = 0
    /\ received'[c].promise # 0
    /\ received'[c].baseUrls = baseUrls

\* The promise cached for baseUrls has been rejected.
FailedFor(baseUrls) ==
    /\ stableStringify(baseUrls) \in DOMAIN cachedServerInfo
    /\ promises[cachedServerInfo[stableStringify(baseUrls)]].state = "rejected"

\* C24: once the promise cached for a base-URL list has been rejected it stays
\* cached and rejected, and a call of getServerInfo with that list returns that
\* promise and sends no request.
C24_FailureStaysCached ==
    [][\A baseUrls \in BaseUrlLists :
          FailedFor(baseUrls) =>
             /\ FailedFor(baseUrls)'
             /\ cachedServerInfo'[stableStringify(baseUrls)]
                   = cachedServerInfo[stableStringify(baseUrls)]
             /\ \A c \in Callers :
                   CallsGetServerInfo(c, baseUrls) =>
                      /\ received'[c].promise = cachedServerInfo[stableStringify(baseUrls)]
                      /\ httpLog' = httpLog
                      /\ promises' = promises]_vars

\* Two callers hold the rejected promise of one list, neither having found its
\* request in flight (so one of them called after the failure), and one request
\* was sent.
C24_Witness ==
    \E c, d \in Callers :
        /\ c # d
        /\ received[c].promise # 0
        /\ received[c].promise = received[d].promise
        /\ received[c].baseUrls = received[d].baseUrls
        /\ ~received[c].inFlight /\ ~received[d].inFlight
        /\ promises[received[c].promise].state = "rejected"
        /\ Len(httpLog) = 1

(***************************************************************************)
(* Claims about the number of levels of a volume.                          *)
(***************************************************************************)

\* The numbers k >= 0 for which all of name_1 ... name_k are keys.
FullPrefixes(keys) == {k \in 0 .. MaxLevel : \A j \in 1 .. k : j \in keys}

\* C26: numLevels of a volume instance is one more than the largest k for which
\* name_1 ... name_k are all keys of the repository, and getSources returns as
\* many levels.
C26_NumLevels ==
    instance.kind = "volume" =>
        /\ instance.numLevels - 1 \in FullPrefixes(instance.keys)
        /\ \A k \in FullPrefixes(instance.keys) : k <= instance.numLevels - 1
        /\ sources # <<>> => Len(sources) = instance.numLevels

\* The repository holds name_1 and name_3 but not name_2: two levels.
C26_Witness ==
    /\ instance.kind = "volume"
    /\ instance.keys = {1, 3}
    /\ instance.numLevels = 2
    /\ Len(sources) = 2

(***************************************************************************)
(* Claims about the annotation geometry.                                   *)
(***************************************************************************)

\* There is one level with one specification, for the bounds of the dataset,
\* and a chunk of its size is large enough to hold the bounding box on every
\* axis.
OneChunkCoversBox ==
    /\ Len(geometrySpecs) = 1
    /\ Len(geometrySpecs[1]) = 1
    /\ LET spec == geometrySpecs[1][1].spec
       IN  /\ spec.lowerVoxelBound = dataInfo.lowerVoxelBound
           /\ spec.upperVoxelBound = dataInfo.upperVoxelBound
           /\ \A i \in Axes :
                 spec.chunkDataSize[i]
                    >= dataInfo.upperVoxelBound[i] - dataInfo.lowerVoxelBound[i]

\* C28: the annotation geometry specifications of a dataset are one level with
\* one chunk specification, and its single chunk covers the bounding box
\* [lowerVoxelBound, upperVoxelBound) of the dataset on every axis, whatever
\* the voxel offset.
C28_SingleChunkCoversDataset ==
    geometrySpecs # <<>> => OneChunkCoversBox

\* The specifications have been made for a dataset with a positive, a zero and
\* a negative voxel offset.
C28_Witness ==
    /\ geometrySpecs # <<>>
    /\ dataInfo.lowerVoxelBound = <<4, 0, -8>>
    /\ dataInfo.upperVoxelBound = <<16, 16, 8>>

\* For a dataset whose voxel offset is not negative, the single chunk covers
\* the bounding box.
C28_NonNegativeOffset ==
    (geometrySpecs # <<>> /\ \A i \in Axes : dataInfo.lowerVoxelBound[i] >= 0)
        => OneChunkCoversBox

(***************************************************************************)
(* Claims about the GPU textures of a chunk.                               *)
(***************************************************************************)

\* C29: once freeGPUMemory has returned for a chunk, every texture copyToGPU
\* created for it has been deleted, and its texture and textureLayout are null.
C29_TexturesFreed ==
    \A c \in GpuChunks :
        ~gpuChunk[c].onGPU =>
            /\ gpuChunk[c].created \cap glContext.live = {}
            /\ gpuChunk[c].texture = 0
            /\ ~gpuChunk[c].textureLayout

\* A chunk has been copied to the GPU and freed twice.
C29_Witness ==
    \E c \in GpuChunks :
        /\ gpuChunk[c].copies = 2
        /\ ~gpuChunk[c].onGPU
        /\ Cardinality(gpuChunk[c].created) = 4

\* The textures alive in the context are the ones the chunks in GPU memory hold
\* in their texture field, and the color textures of all the copies made.
C29_TextureFieldFreed ==
    \A c \in GpuChunks :
        /\ ~gpuChunk[c].onGPU =>
              /\ gpuChunk[c].texture = 0
              /\ ~gpuChunk[c].textureLayout
              /\ Cardinality(gpuChunk[c].created \cap glContext.live) = gpuChunk[c].copies
        /\ gpuChunk[c].onGPU => gpuChunk[c].texture \in glContext.live

(***************************************************************************)
(* Claims about the relationships of an annotation layer.                  *)
(***************************************************************************)

\* The set of the layer the relationship is attached to changes in this step.
AttachedSetChanges(l) ==
    /\ relationship.segmentationState = l
    /\ relationship'.segmentationState = l
    /\ visibleSegments'[l] # visibleSegments[l]

\* C30: when the visible segments of the attached segmentation state change,
\* the map's changed signal is dispatched exactly when the set's emptiness
\* differs from the one at the previous dispatch or at attachment; a change
\* that keeps the set empty or keeps it non-empty dispatches nothing.
C30_DispatchOnEmptinessChange ==
    [][\A l \in SegmentationLayers :
          AttachedSetChanges(l) =>
             /\ changedCount' \in {changedCount, changedCount + 1}
             /\ (changedCount' = changedCount + 1)
                   <=> ((visibleSegments'[l] = {}) # emptyAtDispatch)
             /\ ((visibleSegments'[l] = {}) = (visibleSegments[l] = {}))
                   => changedCount' = changedCount]_vars

\* The attached set went from empty to one segment, which dispatched, and then
\* to two segments, which did not.
C30_Witness ==
    /\ relationship.segmentationState = "A"
    /\ visibleSegments["A"] = {1, 2}
    /\ setChanges = 2
    /\ changedCount = 2
    /\ ~emptyAtDispatch

====
